---- MODULE Spec2Model ----
(***************************************************************************)
(* A model of the tracing core of bedrock: spans (trace/span.go), the      *)
(* tracer and its samplers (trace/tracer.go, trace/sampler.go), the OTLP   *)
(* batch processor and exporter (trace/otlp), their wiring and teardown    *)
(* in bedrock.go, and the W3C header functions (trace/w3c/w3c.go).         *)
(*                                                                         *)
(* Mutexes are modelled explicitly: every method that takes a lock is a    *)
(* Lock step (the mutex goes from free to the name of the method holding   *)
(* it) followed by a body step that runs the critical section and          *)
(* releases the mutex.  Any number of goroutines may be calling; the ones  *)
(* blocked on a mutex are the Lock steps that are not yet enabled.         *)
(***************************************************************************)
EXTENDS Integers, Sequences, FiniteSets, TLC

----------------------------------------------------------------------------
(* Bounds of the model *)

\* spans created by Tracer.Start in one behaviour of SpecTrace
MaxSpans == 2
\* the clock (time.Now) runs from 1 to MaxTime
MaxTime == 2
\* events recorded on one span
MaxEvents == 2
\* calls of the locking Span methods (SetAttr, AddEvent, RecordError, SetStatus,
\* End) made in one behaviour
MaxCalls == 2

\* EnqueueSpan calls made in one behaviour
MaxEnqueues == 4
\* BatchProcessor.Shutdown calls made in one behaviour
MaxShutdowns == 2
\* EnqueueSpan and Shutdown calls made in one behaviour of SpecBatchLive
MaxLiveEnqueues == 3
MaxLiveShutdowns == 1
\* goroutines that call into package bedrock at the same time
MaxGoroutines == 2
\* calls that start children or end the operation, in one behaviour
MaxOpCalls == 3
\* calls that take a mutex, in one behaviour
MaxLockCalls == 2
\* fields that follow the flags field of a traceparent value
MaxExtraFields == 2
\* comma-separated members of a tracestate value
MaxParts == 3

\* the configured MaxQueueSize and BatchSize range up to MaxCfgSize
MaxCfgSize == 2
\* EnqueueSpan calls made in one behaviour of SpecTeardown and of SpecExport
MaxExportEnqueues == 2

VARIABLES
    \* ---- trace package ----
    sampler,        \* Tracer.sampler
    exporter,       \* Tracer.exporter # nil
    spans,          \* the Span objects, in creation order; a *Span is an index
    started,        \* history: the inputs and the sampling decision of each Start
    endReturning,   \* per span: End calls between s.mu.Unlock() and tracer.export
    calls,          \* the number of locking Span method calls made so far
    now,            \* time.Now()
    \* ---- trace/otlp: BatchProcessor ----
    cfg,            \* bp.cfg after NewBatchProcessor: MaxQueueSize, BatchSize
    queue,          \* bp.queue; a span is the number of the EnqueueSpan call
    timer,          \* bp.timer: a timer (an index of timers), 0 for nil
    timers,         \* every time.AfterFunc timer created: armed, stopped, fired, done
    stopped,        \* bp.stopped
    bmu,            \* bp.mu: free, or the method holding it and its argument
    nEnq,           \* the number of EnqueueSpan calls that took bp.mu
    sd,             \* the Shutdown calls: position, local spans, return value
    evicted,        \* history: the spans dropped from the head of a full queue
    accepted,       \* history: the spans EnqueueSpan appended to the queue
    \* ---- trace/otlp: Exporter, and Bedrock.Shutdown ----
    estopped,       \* Exporter.stopped
    teardown,       \* the Bedrock.Shutdown calls past b.batchProcessor.Shutdown
    \* ---- pure functions (trace/w3c) ----
    arg,            \* the function called and its arguments
    result,         \* what it returned; NoResult before the call
    \* ---- trace/http: Propagator ----
    carrier,        \* the carrier of the outgoing request, which Inject writes
    \* ---- package bedrock: operations and steps ----
    operation,      \* the operationState the calls share: childOpCount,
                    \* stepCounts, steps, success, and whether its span has ended
    metrics,        \* the automatic metrics of that operation in b.metrics
    omu,            \* per mutex: the goroutine that holds it, 0 when free
    gor,            \* per goroutine: the call it is in, its position, its locals
    nCalls,         \* the number of calls the goroutines have made
    olog,           \* history: the children in the order they were named, the
                    \* End calls that took effect, the Done calls that returned
    \* ---- shared ----
    exportCalls,    \* every ExportSpans call issued so far, in order, with its
                    \* result: async until the goroutine of a go statement runs
    last            \* history: the method body that ran last

traceVars == <<sampler, exporter, spans, started, endReturning, calls, now>>
batchVars == <<cfg, queue, timer, timers, stopped, bmu, nEnq, sd, evicted, accepted>>
bedrockVars == <<estopped, teardown>>
pureVars == <<arg, result, carrier>>
opVars == <<operation, metrics, omu, gor, nCalls, olog>>
vars == <<traceVars, batchVars, bedrockVars, pureVars, opVars, exportCalls, last>>

\* no pure function is under study
NoArg == [fn |-> "none"]
NoResult == [fn |-> "none"]

\* no request is going out
NoCarrier == [type |-> "none"]

----------------------------------------------------------------------------
(* internal/id.go *)

\* the identifiers NewTraceID and NewSpanID draw; the zero ID is the invalid one
IDs == {1, 2}
ZeroID == 0

----------------------------------------------------------------------------
(* attr.Set: a key-sorted list without duplicate keys, i.e. a finite map *)

AttrKeys == {"k"}
AttrVals == {"v1", "v2"}
\* the argument lists attrs ...attr.Attr used as inputs
AttrArgs == {<<>>} \cup {<<[Key |-> k, Value |-> v]>> : k \in AttrKeys, v \in AttrVals}
\* the initial attributes given to Start
StartAttrArgs == {<<>>, <<[Key |-> "k", Value |-> "v1"]>>}

EmptySet == [k \in {} |-> "v1"]

\* the index of the last attribute of the list with key k
LastIndex(attrs, k) ==
    CHOOSE i \in 1..Len(attrs) :
        /\ attrs[i].Key = k
        /\ \A j \in (i+1)..Len(attrs) : attrs[j].Key # k

NewSet(attrs) ==
    [k \in {attrs[i].Key : i \in 1..Len(attrs)} |-> attrs[LastIndex(attrs, k)].Value]

Merge(s, other) ==
    IF Len(other) = 0 THEN s
    ELSE LET o == NewSet(other)
         IN  [k \in DOMAIN s \cup DOMAIN o |-> IF k \in DOMAIN o THEN o[k] ELSE s[k]]

----------------------------------------------------------------------------
(* trace/sampler.go *)

SamplingDecisionDrop == "Drop"
SamplingDecisionRecord == "Record"
SamplingDecisionRecordAndSample == "RecordAndSample"

\* rng.Float64() is in [0, 1); ratios and draws are in percent
RandDraws == {0, 50, 99}
RatioInputs == {-50, 50, 150}

NewRatioSampler(ratio) ==
    [type |-> "Ratio",
     ratio |-> IF ratio < 0 THEN 0 ELSE IF ratio > 100 THEN 100 ELSE ratio,
     root |-> "none"]

AlwaysSampler == [type |-> "Always", ratio |-> 0, root |-> "none"]
NeverSampler == [type |-> "Never", ratio |-> 0, root |-> "none"]
NilSampler == [type |-> "nil", ratio |-> 0, root |-> "none"]

RootSamplers ==
    {AlwaysSampler, NeverSampler} \cup {NewRatioSampler(r) : r \in RatioInputs}

NewParentBasedSampler(root) == [type |-> "ParentBased", ratio |-> 0, root |-> root]

\* the set of decisions a call may return (the ratio sampler draws a number)
RootShouldSample(s, traceID, name, parentSampled) ==
    CASE s.type = "Always" -> {SamplingDecisionRecordAndSample}
      [] s.type = "Never" -> {SamplingDecisionDrop}
      [] s.type = "Ratio" ->
            {IF r < s.ratio THEN SamplingDecisionRecordAndSample
                            ELSE SamplingDecisionDrop : r \in RandDraws}

\* a parent based sampler that asks the root sampler whatever the parent is
ParentBasedRootOnly(s, traceID, name, parentSampled) ==
    IF s.root # NilSampler
    THEN RootShouldSample(s.root, traceID, name, parentSampled)
    ELSE {SamplingDecisionDrop}

ParentBasedShouldSample(s, traceID, name, parentSampled) ==
    IF parentSampled THEN {SamplingDecisionRecordAndSample}
    ELSE IF s.root # NilSampler
         THEN RootShouldSample(s.root, traceID, name, parentSampled)
         ELSE {SamplingDecisionDrop}

ShouldSample(s, traceID, name, parentSampled) ==
    IF s.type = "ParentBased"
    THEN ParentBasedShouldSample(s, traceID, name, parentSampled)
    ELSE RootShouldSample(s, traceID, name, parentSampled)

Samplers ==
    RootSamplers \cup {NewParentBasedSampler(r) : r \in RootSamplers \cup {NilSampler}}

----------------------------------------------------------------------------
(* trace/tracer.go: NewTracer *)

NewTracerSampler(cfgSampler) ==
    IF cfgSampler = NilSampler THEN AlwaysSampler ELSE cfgSampler

----------------------------------------------------------------------------
(* trace/span.go *)

SpanKindInternal == 0
SpanKindServer == 1
Kinds == {SpanKindInternal, SpanKindServer}

StatusUnset == 0
StatusOK == 1
StatusError == 2
Statuses == {StatusUnset, StatusOK, StatusError}

Names == {"op"}
EventNames == {"ev"}
StatusMsgs == {"", "msg"}
NilErr == "nil"
Errs == {NilErr, "boom", "eof"}
ZeroTime == 0

SpanRefs == 1..Len(spans)

IsRecording(s) == ~spans[s].ended

Duration(s, t) ==
    IF spans[s].endTime = ZeroTime THEN t - spans[s].startTime
    ELSE spans[s].endTime - spans[s].startTime

\* s.mu.Lock() by method m
SpanLock(s, m) ==
    /\ spans[s].mu = "free"
    /\ spans' = [spans EXCEPT ![s].mu = m]
    /\ calls' = calls + 1
    /\ UNCHANGED <<opVars, pureVars, batchVars, bedrockVars, sampler, exporter, started, endReturning, now, exportCalls, last>>

Returned(m, s) == [op |-> m, span |-> s, finalized |-> spans[s].ended]

\* SetAttr without the check of s.ended
SetAttrBodyUnchecked(s, attrs) ==
    [spans EXCEPT ![s].mu = "free", ![s].attrs = Merge(@, attrs)]

SetAttrBody(s, attrs) ==
    IF spans[s].ended
    THEN [spans EXCEPT ![s].mu = "free"]
    ELSE [spans EXCEPT ![s].mu = "free", ![s].attrs = Merge(@, attrs)]

SetAttr(s) ==
    /\ spans[s].mu = "SetAttr"
    /\ \E attrs \in AttrArgs : spans' = SetAttrBody(s, attrs)
    /\ last' = Returned("SetAttr", s)
    /\ UNCHANGED <<opVars, pureVars, batchVars, bedrockVars, sampler, exporter, started, endReturning, calls, now, exportCalls>>

AddEventBody(s, name, attrs) ==
    IF spans[s].ended
    THEN [spans EXCEPT ![s].mu = "free"]
    ELSE [spans EXCEPT ![s].mu = "free",
                       ![s].events = Append(@, [Name |-> name, Time |-> now,
                                                Attrs |-> NewSet(attrs)])]

AddEvent(s) ==
    /\ spans[s].mu = "AddEvent"
    /\ \E name \in EventNames, attrs \in AttrArgs : spans' = AddEventBody(s, name, attrs)
    /\ last' = Returned("AddEvent", s)
    /\ UNCHANGED <<opVars, pureVars, batchVars, bedrockVars, sampler, exporter, started, endReturning, calls, now, exportCalls>>

ErrAttrs(err, attrs) ==
    <<[Key |-> "exception.type", Value |-> "error"],
      [Key |-> "exception.message", Value |-> err]>> \o attrs

\* RecordError that leaves a status that was already set
RecordErrorBodyKeepStatus(s, err, attrs) ==
    IF spans[s].ended
    THEN [spans EXCEPT ![s].mu = "free"]
    ELSE [spans EXCEPT ![s].mu = "free",
                       ![s].events = Append(@, [Name |-> "exception", Time |-> now,
                                                Attrs |-> NewSet(ErrAttrs(err, attrs))]),
                       ![s].status = IF @ = StatusUnset THEN StatusError ELSE @,
                       ![s].statusMsg = IF spans[s].status = StatusUnset THEN err ELSE @]

RecordErrorBody(s, err, attrs) ==
    IF spans[s].ended
    THEN [spans EXCEPT ![s].mu = "free"]
    ELSE [spans EXCEPT ![s].mu = "free",
                       ![s].events = Append(@, [Name |-> "exception", Time |-> now,
                                                Attrs |-> NewSet(ErrAttrs(err, attrs))]),
                       ![s].status = StatusError,
                       ![s].statusMsg = err]

\* RecordError(nil) returns before taking the lock
RecordErrorNil(s) ==
    /\ last' = [op |-> "RecordErrorNil", span |-> s, finalized |-> spans[s].ended]
    /\ UNCHANGED <<opVars, pureVars, batchVars, bedrockVars, traceVars, exportCalls>>

RecordError(s) ==
    /\ spans[s].mu = "RecordError"
    /\ \E err \in Errs \ {NilErr}, attrs \in AttrArgs : spans' = RecordErrorBody(s, err, attrs)
    /\ last' = Returned("RecordError", s)
    /\ UNCHANGED <<opVars, pureVars, batchVars, bedrockVars, sampler, exporter, started, endReturning, calls, now, exportCalls>>

SetStatusBody(s, status, msg) ==
    IF spans[s].ended
    THEN [spans EXCEPT ![s].mu = "free"]
    ELSE [spans EXCEPT ![s].mu = "free", ![s].status = status, ![s].statusMsg = msg]

SetStatus(s) ==
    /\ spans[s].mu = "SetStatus"
    /\ \E status \in Statuses, msg \in StatusMsgs : spans' = SetStatusBody(s, status, msg)
    /\ last' = Returned("SetStatus", s)
    /\ UNCHANGED <<opVars, pureVars, batchVars, bedrockVars, sampler, exporter, started, endReturning, calls, now, exportCalls>>

\* End without the check of s.ended
EndBodyUnchecked(s) ==
    [spans |-> [spans EXCEPT ![s].mu = "free", ![s].endTime = now, ![s].ended = TRUE],
     won |-> TRUE]

\* the critical section of End: .won is TRUE when this call finalized the span
EndBody(s) ==
    IF spans[s].ended
    THEN [spans |-> [spans EXCEPT ![s].mu = "free"], won |-> FALSE]
    ELSE [spans |-> [spans EXCEPT ![s].mu = "free", ![s].endTime = now, ![s].ended = TRUE],
          won |-> TRUE]

End(s) ==
    /\ spans[s].mu = "End"
    /\ LET r == EndBody(s)
       IN  /\ spans' = r.spans
           /\ endReturning' = [endReturning EXCEPT ![s] = IF r.won THEN @ + 1 ELSE @]
    /\ last' = Returned("End", s)
    /\ UNCHANGED <<opVars, pureVars, batchVars, bedrockVars, sampler, exporter, started, calls, now, exportCalls>>

\* Tracer.export: the ExportSpans calls it adds
export(s) ==
    IF ~exporter THEN <<>>
    ELSE <<[by |-> "End", ctx |-> "background", spans |-> <<s>>,
            stopped |-> FALSE, began |-> Len(sd), ret |-> "async"]>>

\* End after s.mu.Unlock(): if s.tracer != nil { s.tracer.export(s) }
EndExport(s) ==
    /\ endReturning[s] > 0
    /\ endReturning' = [endReturning EXCEPT ![s] = @ - 1]
    /\ exportCalls' = exportCalls \o (IF spans[s].tracer THEN export(s) ELSE <<>>)
    /\ last' = [op |-> "EndExport", span |-> s, finalized |-> TRUE]
    /\ UNCHANGED <<opVars, pureVars, batchVars, bedrockVars, sampler, exporter, spans, started, calls, now>>

----------------------------------------------------------------------------
(* trace/tracer.go: Start *)

\* a dropped span that is left live and attached to the tracer
NoopSpanLive(name, traceID, spanID, parentID) ==
    [name |-> name, traceID |-> traceID, spanID |-> spanID, parentID |-> parentID,
     kind |-> SpanKindInternal, startTime |-> now, endTime |-> ZeroTime,
     attrs |-> EmptySet, events |-> <<>>, status |-> StatusUnset, statusMsg |-> "",
     tracer |-> TRUE, ended |-> FALSE, mu |-> "free"]

\* the no-op span of a drop decision
NoopSpan(name, traceID, spanID, parentID) ==
    [name |-> name, traceID |-> traceID, spanID |-> spanID, parentID |-> parentID,
     kind |-> SpanKindInternal, startTime |-> now, endTime |-> ZeroTime,
     attrs |-> EmptySet, events |-> <<>>, status |-> StatusUnset, statusMsg |-> "",
     tracer |-> FALSE, ended |-> TRUE, mu |-> "free"]

LiveSpan(name, traceID, spanID, parentID, kind, attrs) ==
    [name |-> name, traceID |-> traceID, spanID |-> spanID, parentID |-> parentID,
     kind |-> kind, startTime |-> now, endTime |-> ZeroTime,
     attrs |-> NewSet(attrs), events |-> <<>>, status |-> StatusUnset, statusMsg |-> "",
     tracer |-> TRUE, ended |-> FALSE, mu |-> "free"]

\* parentSampled as Start computes it from the resolved parent
ParentSampled(parent) == parent # 0

\* Start that draws a new trace ID whether there is a parent or not
StartTraceIDFresh(parent, newTraceID) == newTraceID

\* traceID as Start resolves it: the parent's, or a new one for a root
StartTraceID(parent, newTraceID) ==
    IF parent # 0 THEN spans[parent].traceID ELSE newTraceID

\* parentID as Start resolves it: the zero value is kept for a root
StartParentID(parent) ==
    IF parent # 0 THEN spans[parent].spanID ELSE ZeroID

\* ctx is the span the context carries (0: none), optParent is options.Parent,
\* newTraceID and newSpanID are what internal.NewTraceID and NewSpanID draw
Start(ctx, optParent, name, kind, attrs, newTraceID, newSpanID) ==
    /\ LET parent == IF optParent # 0 THEN optParent ELSE ctx
           traceID == StartTraceID(parent, newTraceID)
           parentID == StartParentID(parent)
       IN  \E d \in ShouldSample(sampler, traceID, name, ParentSampled(parent)) :
             /\ spans' = Append(spans,
                  IF d = SamplingDecisionDrop
                  THEN NoopSpan(name, traceID, newSpanID, parentID)
                  ELSE LiveSpan(name, traceID, newSpanID, parentID, kind, attrs))
             /\ started' = Append(started, [ctx |-> ctx, optParent |-> optParent,
                                            parent |-> parent, decision |-> d])
             /\ endReturning' = Append(endReturning, 0)
             /\ last' = [op |-> "Start", span |-> Len(spans) + 1,
                         finalized |-> d = SamplingDecisionDrop]
    /\ UNCHANGED <<opVars, pureVars, batchVars, bedrockVars, sampler, exporter, calls, now, exportCalls>>

Tick ==
    /\ now < MaxTime
    /\ now' = now + 1
    /\ UNCHANGED <<opVars, pureVars, batchVars, bedrockVars, sampler, exporter, spans, started, endReturning, calls, exportCalls, last>>

----------------------------------------------------------------------------
(* trace/otlp/batch.go *)

DefaultMaxQueueSize == 2048
DefaultBatchSize == 512

\* the values a BatchProcessorConfig is given
CfgSizes == -1..MaxCfgSize

NewBatchProcessor(maxQueueSize, batchSize) ==
    [MaxQueueSize |-> IF maxQueueSize <= 0 THEN DefaultMaxQueueSize ELSE maxQueueSize,
     BatchSize |-> IF batchSize <= 0 THEN DefaultBatchSize ELSE batchSize]

Free == [op |-> "free", arg |-> 0]

\* timer.Stop(): a timer that has fired is not stopped, its callback runs
Stop(tms, id) ==
    IF tms[id] = "armed" THEN [tms EXCEPT ![id] = "stopped"] ELSE tms

\* the processor's fields as one record, for the code that runs under bp.mu
Fields ==
    [queue |-> queue, timer |-> timer, timers |-> timers, exportCalls |-> exportCalls,
     evicted |-> evicted, accepted |-> FALSE]

\* exportLocked that leaves the exported spans in the queue
exportLockedKeepQueue(b, by) ==
    IF Len(b.queue) = 0 THEN b
    ELSE [b EXCEPT !.timers = IF b.timer # 0 THEN Stop(b.timers, b.timer) ELSE b.timers,
                   !.timer = 0,
                   !.exportCalls = Append(@, [by |-> by, ctx |-> "background",
                                              spans |-> b.queue, stopped |-> stopped,
                                              began |-> Len(sd), ret |-> "async"])]

\* by names the caller in the record of the ExportSpans call
exportLocked(b, by) ==
    IF Len(b.queue) = 0 THEN b
    ELSE [b EXCEPT !.timers = IF b.timer # 0 THEN Stop(b.timers, b.timer) ELSE b.timers,
                   !.timer = 0,
                   !.queue = <<>>,
                   !.exportCalls = Append(@, [by |-> by, ctx |-> "background",
                                              spans |-> b.queue, stopped |-> stopped,
                                              began |-> Len(sd), ret |-> "async"])]

\* len(bp.queue) > bp.cfg.MaxQueueSize
QueueOverFull(q) == Len(q) > cfg.MaxQueueSize

\* len(bp.queue) >= bp.cfg.MaxQueueSize
QueueFull(q) == Len(q) >= cfg.MaxQueueSize

\* bp.queue[:len(bp.queue)-1]
DropNewest(q) == SubSeq(q, 1, Len(q) - 1)

\* bp.queue[1:]
DropOldest(q) == Tail(q)

\* len(bp.queue) > bp.cfg.BatchSize
BatchOverFull(q) == Len(q) > cfg.BatchSize

\* len(bp.queue) >= bp.cfg.MaxQueueSize + 1: a flush only of a queue that
\* has overflowed
BatchPastQueue(q) == Len(q) >= cfg.MaxQueueSize + 1

\* len(bp.queue) >= bp.cfg.BatchSize
BatchFull(q) == Len(q) >= cfg.BatchSize

\* the spans of q that are no longer in r, in the order of q
RECURSIVE Removed(_, _)
Removed(q, r) ==
    IF q = <<>> THEN <<>>
    ELSE (IF \E i \in 1..Len(r) : r[i] = Head(q) THEN <<>> ELSE <<Head(q)>>)
         \o Removed(Tail(q), r)

\* EnqueueSpan that arms no timer
EnqueueSpanAppendNoTimer(span) ==
    LET q1 == IF QueueFull(queue) THEN DropOldest(queue) ELSE queue
        q2 == Append(q1, span)
        b == [Fields EXCEPT !.queue = q2,
                            !.evicted = @ \o Removed(queue, q1),
                            !.accepted = TRUE]
    IN  IF BatchFull(q2) THEN exportLocked(b, "EnqueueSpan") ELSE b

\* the critical section of EnqueueSpan after the check of bp.stopped
EnqueueSpanAppend(span) ==
    LET q1 == IF QueueFull(queue) THEN DropOldest(queue) ELSE queue
        q2 == Append(q1, span)
        first == Len(q2) = 1
        b == [Fields EXCEPT !.queue = q2,
                            !.timers = IF first THEN Append(@, "armed") ELSE @,
                            !.timer = IF first THEN Len(timers) + 1 ELSE @,
                            !.evicted = @ \o Removed(queue, q1),
                            !.accepted = TRUE]
    IN  IF BatchFull(q2) THEN exportLocked(b, "EnqueueSpan") ELSE b

\* EnqueueSpan without the check of bp.stopped
EnqueueSpanBodyUnchecked(span) == EnqueueSpanAppend(span)

EnqueueSpanBody(span) ==
    IF stopped THEN Fields ELSE EnqueueSpanAppend(span)

\* bp.mu.Lock() in EnqueueSpan: the calls are numbered in the order they lock
EnqueueSpanLock ==
    /\ nEnq < MaxEnqueues
    /\ bmu = Free
    /\ nEnq' = nEnq + 1
    /\ bmu' = [op |-> "EnqueueSpan", arg |-> nEnq + 1]
    /\ UNCHANGED <<opVars, pureVars, traceVars, bedrockVars, cfg, queue, timer, timers, stopped, sd, evicted, accepted,
                   exportCalls, last>>

EnqueueSpan ==
    /\ bmu.op = "EnqueueSpan"
    /\ LET b == EnqueueSpanBody(bmu.arg)
       IN  /\ queue' = b.queue
           /\ timer' = b.timer
           /\ timers' = b.timers
           /\ exportCalls' = b.exportCalls
           /\ evicted' = b.evicted
           /\ accepted' = IF b.accepted THEN accepted \cup {bmu.arg} ELSE accepted
    /\ bmu' = Free
    /\ last' = [op |-> "EnqueueSpan", span |-> bmu.arg, stopped |-> stopped]
    /\ UNCHANGED <<opVars, pureVars, traceVars, bedrockVars, cfg, stopped, nEnq, sd>>

\* the runtime fires an armed timer: its callback bp.flush starts
TimerFire(id) ==
    /\ timers[id] = "armed"
    /\ timers' = [timers EXCEPT ![id] = "fired"]
    /\ UNCHANGED <<opVars, pureVars, traceVars, bedrockVars, cfg, queue, timer, stopped, bmu, nEnq, sd, evicted, accepted,
                   exportCalls, last>>

\* bp.mu.Lock() in flush, the callback of timer id
flushLock(id) ==
    /\ timers[id] = "fired"
    /\ bmu = Free
    /\ bmu' = [op |-> "flush", arg |-> id]
    /\ UNCHANGED <<opVars, pureVars, traceVars, bedrockVars, cfg, queue, timer, timers, stopped, nEnq, sd, evicted,
                   accepted, exportCalls, last>>

\* flush that waits for the ExportSpans calls in progress
flushWaiting ==
    /\ bmu.op = "flush"
    /\ \A i \in 1..Len(exportCalls) : exportCalls[i].ret # "running"
    /\ LET b == exportLocked(Fields, "flush")
       IN  /\ queue' = b.queue
           /\ timer' = b.timer
           /\ timers' = [b.timers EXCEPT ![bmu.arg] = "done"]
           /\ exportCalls' = b.exportCalls
    /\ bmu' = Free
    /\ last' = [op |-> "flush", span |-> bmu.arg, stopped |-> stopped]
    /\ UNCHANGED <<opVars, pureVars, traceVars, bedrockVars, cfg, stopped, nEnq, sd, evicted, accepted>>

flush ==
    /\ bmu.op = "flush"
    /\ LET b == exportLocked(Fields, "flush")
       IN  /\ queue' = b.queue
           /\ timer' = b.timer
           /\ timers' = [b.timers EXCEPT ![bmu.arg] = "done"]
           /\ exportCalls' = b.exportCalls
    /\ bmu' = Free
    /\ last' = [op |-> "flush", span |-> bmu.arg, stopped |-> stopped]
    /\ UNCHANGED <<opVars, pureVars, traceVars, bedrockVars, cfg, stopped, nEnq, sd, evicted, accepted>>

\* bp.mu.Lock() in Shutdown
ShutdownLock ==
    /\ Len(sd) < MaxShutdowns
    /\ bmu = Free
    /\ sd' = Append(sd, [pc |-> "locked", first |-> FALSE, found |-> <<>>,
                         spans |-> <<>>, call |-> 0, ret |-> "none"])
    /\ bmu' = [op |-> "Shutdown", arg |-> Len(sd) + 1]
    /\ UNCHANGED <<opVars, pureVars, traceVars, bedrockVars, cfg, queue, timer, timers, stopped, nEnq, evicted, accepted,
                   exportCalls, last>>

\* Shutdown that leaves the spans it exports in the queue
ShutdownBodyKeepQueue(call) ==
    IF stopped
    THEN [call |-> [call EXCEPT !.pc = "done", !.ret = "nil"],
          stopped |-> stopped, timers |-> timers, queue |-> queue]
    ELSE [call |-> IF Len(queue) > 0
                   THEN [call EXCEPT !.pc = "export", !.first = TRUE, !.found = queue,
                                     !.spans = queue]
                   ELSE [call EXCEPT !.pc = "done", !.first = TRUE, !.ret = "nil"],
          stopped |-> TRUE,
          timers |-> IF timer # 0 THEN Stop(timers, timer) ELSE timers,
          queue |-> queue]

\* the critical section of Shutdown: found is the queue as the call found it,
\* spans its local variable
ShutdownBody(call) ==
    IF stopped
    THEN [call |-> [call EXCEPT !.pc = "done", !.ret = "nil"],
          stopped |-> stopped, timers |-> timers, queue |-> queue]
    ELSE [call |-> IF Len(queue) > 0
                   THEN [call EXCEPT !.pc = "export", !.first = TRUE, !.found = queue,
                                     !.spans = queue]
                   ELSE [call EXCEPT !.pc = "done", !.first = TRUE, !.ret = "nil"],
          stopped |-> TRUE,
          timers |-> IF timer # 0 THEN Stop(timers, timer) ELSE timers,
          queue |-> <<>>]

Shutdown ==
    /\ bmu.op = "Shutdown"
    /\ LET r == ShutdownBody(sd[bmu.arg])
       IN  /\ sd' = [sd EXCEPT ![bmu.arg] = r.call]
           /\ stopped' = r.stopped
           /\ timers' = r.timers
           /\ queue' = r.queue
    /\ bmu' = Free
    /\ last' = [op |-> "Shutdown", span |-> bmu.arg, stopped |-> stopped]
    /\ UNCHANGED <<opVars, pureVars, traceVars, bedrockVars, cfg, timer, nEnq, evicted, accepted, exportCalls>>

\* the errors ExportSpans may return
ExportErrs == {"nil", "err"}

\* return bp.exporter.ExportSpans(ctx, spans): k is the call, err its result
ShutdownReturn(call, k, err) ==
    [call EXCEPT !.pc = "done", !.spans = <<>>, !.call = k, !.ret = err]

\* what a synchronous ExportSpans call may return: nil from a stopped exporter
ExportResults == IF estopped THEN {"nil"} ELSE ExportErrs

\* Shutdown after bp.mu.Unlock(): the synchronous ExportSpans call
ShutdownExport(i) ==
    /\ sd[i].pc = "export"
    /\ \E err \in ExportResults :
        /\ exportCalls' = Append(exportCalls, [by |-> "Shutdown", ctx |-> "caller",
                                               spans |-> sd[i].spans, stopped |-> stopped,
                                               began |-> Len(sd), ret |-> err])
        /\ sd' = [sd EXCEPT ![i] = ShutdownReturn(@, Len(exportCalls) + 1, err)]
    /\ last' = [op |-> "ShutdownExport", span |-> i, stopped |-> stopped]
    /\ UNCHANGED <<opVars, pureVars, traceVars, bedrockVars, cfg, queue, timer, timers, stopped, bmu, nEnq, evicted,
                   accepted>>

----------------------------------------------------------------------------
(* trace/otlp/exporter.go: the goroutines started by go ExportSpans(...) *)

\* ExportSpans without the check of e.stopped
ExportSpansUnchecked(call) == [call EXCEPT !.ret = "running"]

\* the head of ExportSpans: a stopped exporter returns nil and sends nothing
ExportSpansCheck(call) ==
    IF estopped THEN [call EXCEPT !.ret = "skipped"]
    ELSE [call EXCEPT !.ret = "running"]

\* the goroutine of call i is scheduled and runs the head of ExportSpans
ExportSpans(i) ==
    /\ exportCalls[i].ret = "async"
    /\ exportCalls' = [exportCalls EXCEPT ![i] = ExportSpansCheck(@)]
    /\ UNCHANGED <<opVars, pureVars, traceVars, batchVars, bedrockVars, last>>

\* the HTTP request of call i ends, with or without an error; a request that
\* never ends leaves the call running
ExportSpansReturn(i) ==
    /\ exportCalls[i].ret = "running"
    /\ \E r \in {"sent", "failed"} : exportCalls' = [exportCalls EXCEPT ![i].ret = r]
    /\ UNCHANGED <<opVars, pureVars, traceVars, batchVars, bedrockVars, last>>

----------------------------------------------------------------------------
(* bedrock.go: Shutdown.  A Bedrock built with a trace endpoint has an
   exporter, a batch processor and a tracer over the exporter; one built
   without has the tracer alone.  The j-th call of Bedrock.Shutdown is the one
   whose b.batchProcessor.Shutdown is the j-th to take bp.mu. *)

\* Bedrock.Shutdown enters b.batchProcessor.Shutdown
BedrockShutdown ==
    /\ exporter
    /\ ShutdownLock

\* if err := b.batchProcessor.Shutdown(ctx); err != nil { return err }
BedrockShutdownProcessor(j) ==
    /\ exporter
    /\ j \notin DOMAIN teardown
    /\ sd[j].pc = "done"
    /\ teardown' = (j :> [pc |-> IF sd[j].ret # "nil" THEN "done" ELSE "tracer",
                          ret |-> sd[j].ret, exporterShutdowns |-> 0]) @@ teardown
    /\ UNCHANGED <<opVars, pureVars, traceVars, batchVars, estopped, exportCalls, last>>

\* Bedrock.Shutdown with b.batchProcessor == nil
BedrockShutdownNoProcessor ==
    /\ ~exporter
    /\ Cardinality(DOMAIN teardown) < MaxShutdowns
    /\ teardown' = (Cardinality(DOMAIN teardown) + 1 :>
                        [pc |-> "tracer", ret |-> "nil", exporterShutdowns |-> 0]) @@ teardown
    /\ UNCHANGED <<opVars, pureVars, traceVars, batchVars, estopped, exportCalls, last>>

\* b.tracer.Shutdown(ctx): Tracer.Shutdown calls Exporter.Shutdown, which sets
\* e.stopped under e.mu and returns nil
BedrockShutdownTracer(j) ==
    /\ j \in DOMAIN teardown
    /\ teardown[j].pc = "tracer"
    /\ estopped' = (exporter \/ estopped)
    /\ teardown' = [teardown EXCEPT ![j].pc = "done", ![j].ret = "nil",
                                    ![j].exporterShutdowns = IF exporter THEN @ + 1 ELSE @]
    /\ UNCHANGED <<opVars, pureVars, traceVars, batchVars, exportCalls, last>>

----------------------------------------------------------------------------
(* api.go, options.go: operations and steps.  The goroutines call the
   functions of package bedrock on one operation (its operationState and its
   span), on one step of it, on the batch processor and on the exporter.  A
   call is the sequence of its mutex operations and of the effects it has
   between them; a goroutine that finds a mutex held waits. *)

OpMu == "operationState.mu"
OpSpanMu == "op.span.mu"
StepSpanMu == "step.span.mu"
BpMu == "bp.mu"
ExporterMu == "e.mu"

Mutexes == {OpMu, OpSpanMu, StepSpanMu, BpMu, ExporterMu}
SpanMutexes == {OpSpanMu, StepSpanMu}

Lock(mu) == [k |-> "Lock", x |-> mu]
Unlock(mu) == [k |-> "Unlock", x |-> mu]
Do(effect) == [k |-> "Do", x |-> effect]

\* the names operations and steps are started with
OpNames == {"a", "b"}

\* fullName as Operation and StepFromContext compute it from the count read
FullName(name, count) ==
    IF count > 0 THEN name \o "[" \o ToString(count) \o "]" ELSE name

\* a Span method that locks s.mu: SetAttr, AddEvent, RecordError, SetStatus
SpanMethod(mu) == <<Lock(mu), Unlock(mu)>>

\* Span.End on the operation's span; the export it dispatches runs in a
\* goroutine of its own (ExportSpans)
SpanEnd == <<Lock(OpSpanMu), Do("End"), Unlock(OpSpanMu)>>

\* Operation that enumerates the name without the parent's mutex
OperationUnlocked == <<Do("count := childOpCount"), Do("childOpCount = count + 1")>>

\* Operation under a parent operation: the enumeration of the name
Operation ==
    <<Lock(OpMu), Do("count := childOpCount"), Do("childOpCount = count + 1"), Unlock(OpMu)>>

\* StepFromContext: the enumeration of the name, tracer.Start, and the append
\* to parent.steps
StepFromContext ==
    <<Lock(OpMu), Do("count := stepCounts"), Do("stepCounts = count + 1"), Unlock(OpMu),
      Lock(OpMu), Do("steps"), Unlock(OpMu)>>

\* operationState.setAttr: span.SetAttr under op.mu and, for an error
\* attribute, span.RecordError under op.mu
setAttr(item) ==
    <<Lock(OpMu)>> \o SpanMethod(OpSpanMu)
    \o (IF item = "error" THEN <<Do("failure")>> \o SpanMethod(OpSpanMu) ELSE <<>>)
    \o <<Unlock(OpMu)>>

\* Op.Register of an attribute, an event or an error attribute
OpRegister(item) ==
    IF item = "event" THEN SpanMethod(OpSpanMu) ELSE setAttr(item)

\* OpStep.Register: the step's span, then the parent operation
OpStepRegister(item) ==
    IF item = "event" THEN SpanMethod(StepSpanMu)
    ELSE SpanMethod(StepSpanMu) \o setAttr(item)

\* operationState.recordMetrics on a Bedrock that is not the no-op instance:
\* the count, the successes or the failures, and the duration histogram
recordMetrics(m, success) ==
    [count |-> m.count + 1,
     successes |-> IF success THEN m.successes + 1 ELSE m.successes,
     failures |-> IF success THEN m.failures ELSE m.failures + 1,
     observations |-> m.observations + 1]

\* end that builds the metric labels before it releases the span's mutex
endHoldingSpan ==
    <<Lock(OpSpanMu), Do("End"), Lock(OpMu), Unlock(OpMu), Unlock(OpSpanMu),
      Do("recordMetrics")>>

\* operationState.end with LogCanonical off: span.End, buildMetricLabels
\* under op.mu, the metrics
end ==
    SpanEnd \o <<Lock(OpMu), Unlock(OpMu), Do("recordMetrics")>>

\* Op.Done
OpDone == end

\* OpStep.Done
OpStepDone == SpanMethod(StepSpanMu)

\* BatchProcessor.EnqueueSpan and flush: one critical section of bp.mu (the
\* export of exportLocked runs in a goroutine of its own)
BatchMethod == <<Lock(BpMu), Unlock(BpMu)>>

\* BatchProcessor.Shutdown that finds spans: bp.mu, then ExportSpans
BatchShutdown == BatchMethod \o <<Lock(ExporterMu), Unlock(ExporterMu)>>

\* the head of Exporter.ExportSpans, and Exporter.Shutdown
ExporterMethod == <<Lock(ExporterMu), Unlock(ExporterMu)>>

NoMethod == [fn |-> "none"]

\* the mutex operations and effects of a call
Plan(call) ==
    CASE call.fn = "Operation" -> Operation
      [] call.fn = "Step" -> StepFromContext
      [] call.fn = "Op.Register" -> OpRegister(call.item)
      [] call.fn = "OpStep.Register" -> OpStepRegister(call.item)
      [] call.fn = "Op.Done" -> OpDone
      [] call.fn = "OpStep.Done" -> OpStepDone
      [] call.fn = "Span.SetAttr" -> SpanMethod(OpSpanMu)
      [] call.fn = "Span.End" -> SpanEnd
      [] call.fn = "EnqueueSpan" -> BatchMethod
      [] call.fn = "flush" -> BatchMethod
      [] call.fn = "Shutdown" -> BatchShutdown
      [] call.fn = "ExportSpans" -> ExporterMethod
      [] OTHER -> <<>>

\* the calls that start children and end the operation
NamingCalls ==
    {[fn |-> f, name |-> n] : f \in {"Operation", "Step"}, n \in OpNames}
    \cup {[fn |-> "Op.Register", item |-> "error"], [fn |-> "Op.Done"]}

\* the calls that share mutexes
LockingCalls ==
    {[fn |-> f, name |-> "a"] : f \in {"Operation", "Step"}}
    \cup {[fn |-> f, item |-> i] : f \in {"Op.Register", "OpStep.Register"},
                                   i \in {"attr", "event", "error"}}
    \cup {[fn |-> f] : f \in {"Op.Done", "OpStep.Done", "Span.SetAttr", "Span.End",
                              "EnqueueSpan", "flush", "Shutdown", "ExportSpans"}}

Goroutines == 1..MaxGoroutines

IdleGoroutine == [call |-> NoMethod, pc |-> 1, count |-> 0, fullName |-> ""]

\* newOperationState, before any child, on a fresh registry, with no call made
NoOperation ==
    /\ operation = [childOpCount |-> [n \in OpNames |-> 0],
                    stepCounts |-> [n \in OpNames |-> 0],
                    steps |-> <<>>, success |-> TRUE, spanEnded |-> FALSE]
    /\ metrics = [count |-> 0, successes |-> 0, failures |-> 0, observations |-> 0]
    /\ omu = [mu \in Mutexes |-> 0]
    /\ gor = [g \in Goroutines |-> IdleGoroutine]
    /\ nCalls = 0
    /\ olog = [children |-> <<>>, ends |-> 0, dones |-> 0]

\* the goroutine is in a call
Busy(g) == gor[g].call # NoMethod

\* the step the goroutine is at
NextStep(g) == Plan(gor[g].call)[gor[g].pc]

\* the goroutine is at a Lock of a mutex that is held
Waits(g) == Busy(g) /\ NextStep(g).k = "Lock" /\ omu[NextStep(g).x] # 0

\* a goroutine makes a call; the goroutines are alike, so the call is made by
\* the first one that is free
GoCall(g, call, maxCalls) ==
    /\ nCalls < maxCalls
    /\ ~Busy(g)
    /\ \A h \in Goroutines : h < g => Busy(h)
    /\ gor' = [gor EXCEPT ![g] = [IdleGoroutine EXCEPT !.call = call]]
    /\ nCalls' = nCalls + 1
    /\ UNCHANGED <<traceVars, batchVars, bedrockVars, pureVars, exportCalls, last,
                   operation, metrics, omu, olog>>

\* the goroutine moves past its step; at the end of the plan the call returns
Advance(g) ==
    IF gor[g].pc = Len(Plan(gor[g].call)) THEN IdleGoroutine
    ELSE [gor[g] EXCEPT !.pc = @ + 1]

\* mu.Lock() and mu.Unlock()
GoLock(g) ==
    /\ Busy(g)
    /\ NextStep(g).k \in {"Lock", "Unlock"}
    /\ IF NextStep(g).k = "Lock"
       THEN omu[NextStep(g).x] = 0 /\ omu' = [omu EXCEPT ![NextStep(g).x] = g]
       ELSE omu' = [omu EXCEPT ![NextStep(g).x] = 0]
    /\ gor' = [gor EXCEPT ![g] = Advance(g)]
    /\ UNCHANGED <<traceVars, batchVars, bedrockVars, pureVars, exportCalls, last,
                   operation, metrics, nCalls, olog>>

\* count := parent.childOpCount[name] (and the same with stepCounts)
ReadCount(g, counts) ==
    /\ gor' = [gor EXCEPT ![g] = [Advance(g) EXCEPT !.count =
                    operation[counts][gor[g].call.name]]]
    /\ UNCHANGED <<operation, metrics, olog>>

\* parent.childOpCount[name] = count + 1 and the fullName of the child (and
\* the same with stepCounts)
WriteCount(g, counts, kind) ==
    LET name == gor[g].call.name
        fullName == FullName(name, gor[g].count)
    IN  /\ operation' = [operation EXCEPT ![counts][name] = gor[g].count + 1]
        /\ olog' = [olog EXCEPT !.children =
                        Append(@, [kind |-> kind, name |-> name, fullName |-> fullName])]
        /\ gor' = [gor EXCEPT ![g] =
                        IF gor[g].pc = Len(Plan(gor[g].call)) THEN IdleGoroutine
                        ELSE [Advance(g) EXCEPT !.fullName = fullName]]
        /\ metrics' = metrics

\* what a call does between its mutex operations
GoDo(g) ==
    /\ Busy(g)
    /\ NextStep(g).k = "Do"
    /\ CASE NextStep(g).x = "count := childOpCount" -> ReadCount(g, "childOpCount")
         [] NextStep(g).x = "childOpCount = count + 1" ->
                WriteCount(g, "childOpCount", "Operation")
         [] NextStep(g).x = "count := stepCounts" -> ReadCount(g, "stepCounts")
         [] NextStep(g).x = "stepCounts = count + 1" -> WriteCount(g, "stepCounts", "Step")
         [] NextStep(g).x = "steps" ->
                /\ operation' = [operation EXCEPT !.steps = Append(@, gor[g].fullName)]
                /\ gor' = [gor EXCEPT ![g] = Advance(g)]
                /\ UNCHANGED <<metrics, olog>>
         [] NextStep(g).x = "failure" ->
                /\ operation' = [operation EXCEPT !.success = FALSE]
                /\ gor' = [gor EXCEPT ![g] = Advance(g)]
                /\ UNCHANGED <<metrics, olog>>
         [] NextStep(g).x = "End" ->
                /\ operation' = [operation EXCEPT !.spanEnded = TRUE]
                /\ olog' = [olog EXCEPT !.ends = IF operation.spanEnded THEN @ ELSE @ + 1]
                /\ gor' = [gor EXCEPT ![g] = Advance(g)]
                /\ UNCHANGED metrics
         [] NextStep(g).x = "recordMetrics" ->
                /\ metrics' = recordMetrics(metrics, operation.success)
                /\ olog' = [olog EXCEPT !.dones = @ + 1]
                /\ gor' = [gor EXCEPT ![g] = Advance(g)]
                /\ UNCHANGED operation
    /\ UNCHANGED <<traceVars, batchVars, bedrockVars, pureVars, exportCalls, last, omu, nCalls>>

----------------------------------------------------------------------------
(* Strings are sequences of characters; encoding/hex and package strings *)

Digits == {"0", "1", "2", "3", "4", "5", "6", "7", "8", "9"}
LowerAF == {"a", "b", "c", "d", "e", "f"}
UpperAF == {"A", "B", "C", "D", "E", "F"}

\* the digits of hex.EncodeToString and of %x, and those of %X
hextable == <<"0", "1", "2", "3", "4", "5", "6", "7", "8", "9",
              "a", "b", "c", "d", "e", "f">>
upperhextable == <<"0", "1", "2", "3", "4", "5", "6", "7", "8", "9",
                   "A", "B", "C", "D", "E", "F">>

\* n times the character c
Rep(c, n) == [i \in 1..n |-> c]

\* the index of the first sep in s, 0 if there is none
Index(s, sep) ==
    IF \E i \in 1..Len(s) : s[i] = sep
    THEN CHOOSE i \in 1..Len(s) : s[i] = sep /\ \A j \in 1..(i-1) : s[j] # sep
    ELSE 0

\* strings.Split(s, sep) for a one-character sep: the pieces between the
\* places of sep, from the start of s to its end
Split(s, sep) ==
    LET IsSep(i) == s[i] = sep
        at == <<0>> \o SelectSeq([i \in 1..Len(s) |-> i], IsSep) \o <<Len(s) + 1>>
    IN  [k \in 1..(Len(at) - 1) |-> SubSeq(s, at[k] + 1, at[k + 1] - 1)]

\* strings.Join(elems, sep)
RECURSIVE Join(_, _)
Join(elems, sep) ==
    IF Len(elems) = 0 THEN <<>>
    ELSE IF Len(elems) = 1 THEN elems[1]
    ELSE elems[1] \o <<sep>> \o Join(Tail(elems), sep)

\* hex.fromHexChar: the value of a hex digit of either case
fromHexChar(c) ==
    IF c \in Digits \cup LowerAF
    THEN (CHOOSE k \in 1..16 : hextable[k] = c) - 1
    ELSE (CHOOSE k \in 1..16 : upperhextable[k] = c) - 1

\* hex.DecodeString: err is set for an odd length or a character that is no
\* hex digit
DecodeString(s) ==
    IF Len(s) % 2 = 1 \/ \E i \in 1..Len(s) : s[i] \notin Digits \cup LowerAF \cup UpperAF
    THEN [err |-> TRUE, bytes |-> <<>>]
    ELSE [err |-> FALSE,
          bytes |-> [k \in 1..(Len(s) \div 2) |->
                        16 * fromHexChar(s[2*k - 1]) + fromHexChar(s[2*k])]]

\* hex encoding in upper case
EncodeToStringUpper(b) ==
    [i \in 1..(2 * Len(b)) |->
        IF i % 2 = 1 THEN upperhextable[(b[(i + 1) \div 2] \div 16) + 1]
        ELSE upperhextable[(b[i \div 2] % 16) + 1]]

\* hex.EncodeToString, and fmt's %02x for one byte
EncodeToString(b) ==
    [i \in 1..(2 * Len(b)) |->
        IF i % 2 = 1 THEN hextable[(b[(i + 1) \div 2] \div 16) + 1]
        ELSE hextable[(b[i \div 2] % 16) + 1]]

----------------------------------------------------------------------------
(* internal/id.go: identifiers as arrays of bytes *)

TraceIDSize == 16
SpanIDSize == 8

ZeroBytes(n) == [i \in 1..n |-> 0]

\* TraceID.IsZero, SpanID.IsZero
IsZero(id) == \A i \in 1..Len(id) : id[i] = 0

\* TraceIDFromHex, SpanIDFromHex: copy(id[:], b) into an array of n zero bytes
IDFromHex(s, n) ==
    LET d == DecodeString(s)
    IN  IF d.err THEN [err |-> TRUE, id |-> ZeroBytes(n)]
        ELSE [err |-> FALSE,
              id |-> [i \in 1..n |-> IF i <= Len(d.bytes) THEN d.bytes[i] ELSE 0]]

----------------------------------------------------------------------------
(* trace/w3c/w3c.go: traceparent *)

versionLen == 2
traceIDLen == 32
spanIDLen == 16
flagsLen == 2
fieldCount == 4
minLength == versionLen + 1 + traceIDLen + 1 + spanIDLen + 1 + flagsLen

SampledFlag == 1

ErrInvalidTraceparent == "invalid traceparent header"
ErrInvalidTraceID == "invalid trace-id"
ErrInvalidSpanID == "invalid parent-id"
ErrInvalidVersion == "invalid version"
ErrUnsupportedVersion == "unsupported version"
ErrInvalidFlags == "invalid flags"

isHex(s) == \A i \in 1..Len(s) : s[i] \in Digits \cup LowerAF \cup UpperAF

\* isLowercaseHex that lets upper-case digits through
isLowercaseHexAnyCase(s) == isHex(s)

isLowercaseHex(s) == \A i \in 1..Len(s) : s[i] \in Digits \cup LowerAF

\* a version check that accepts version 00 alone
validateVersionOnly00(version) ==
    IF Len(version) # versionLen \/ ~isHex(version) THEN ErrInvalidVersion
    ELSE IF version # <<"0", "0">> THEN ErrUnsupportedVersion
    ELSE "nil"

\* the version checks of ParseTraceparent: "nil" when the version passes
validateVersion(version) ==
    IF Len(version) # versionLen THEN ErrInvalidVersion
    ELSE IF ~isHex(version) THEN ErrInvalidVersion
    ELSE IF version # <<"0", "0">> /\ version # <<"f", "f">> THEN "nil"
    ELSE IF version = <<"f", "f">> THEN ErrUnsupportedVersion
    ELSE "nil"

\* what ParseTraceparent returns with an error
ParseFailure(err) ==
    [traceID |-> ZeroBytes(TraceIDSize), spanID |-> ZeroBytes(SpanIDSize),
     flags |-> 0, err |-> err]

ParseTraceparent(value) ==
    IF Len(value) < minLength THEN ParseFailure(ErrInvalidTraceparent)
    ELSE
    LET fields == Split(value, "-")
    IN  IF Len(fields) < fieldCount THEN ParseFailure(ErrInvalidTraceparent)
        ELSE
        LET version == fields[1]
            traceIDHex == fields[2]
            parentIDHex == fields[3]
            flagsHex == fields[4]
            traceID == IDFromHex(traceIDHex, TraceIDSize)
            parentID == IDFromHex(parentIDHex, SpanIDSize)
            flagsBytes == DecodeString(flagsHex)
        IN  IF validateVersion(version) # "nil" THEN ParseFailure(validateVersion(version))
            ELSE IF Len(traceIDHex) # traceIDLen THEN ParseFailure(ErrInvalidTraceID)
            ELSE IF ~isLowercaseHex(traceIDHex) THEN ParseFailure(ErrInvalidTraceID)
            ELSE IF traceID.err THEN ParseFailure(ErrInvalidTraceID)
            ELSE IF IsZero(traceID.id) THEN ParseFailure(ErrInvalidTraceID)
            ELSE IF Len(parentIDHex) # spanIDLen THEN ParseFailure(ErrInvalidSpanID)
            ELSE IF ~isLowercaseHex(parentIDHex) THEN ParseFailure(ErrInvalidSpanID)
            ELSE IF parentID.err THEN ParseFailure(ErrInvalidSpanID)
            ELSE IF IsZero(parentID.id) THEN ParseFailure(ErrInvalidSpanID)
            ELSE IF Len(flagsHex) # flagsLen THEN ParseFailure(ErrInvalidFlags)
            ELSE IF ~isHex(flagsHex) THEN ParseFailure(ErrInvalidFlags)
            ELSE IF flagsBytes.err THEN ParseFailure(ErrInvalidFlags)
            ELSE [traceID |-> traceID.id, spanID |-> parentID.id,
                  flags |-> flagsBytes.bytes[1], err |-> "nil"]

\* FormatTraceparent that writes the identifiers in upper case
FormatTraceparentUpper(traceID, spanID, sampled) ==
    <<"0", "0", "-">> \o EncodeToStringUpper(traceID) \o <<"-">> \o EncodeToStringUpper(spanID)
        \o <<"-">> \o EncodeToString(<<IF sampled THEN SampledFlag ELSE 0>>)

\* flags is 0 with SampledFlag or'ed in when sampled
FormatTraceparent(traceID, spanID, sampled) ==
    <<"0", "0", "-">> \o EncodeToString(traceID) \o <<"-">> \o EncodeToString(spanID)
        \o <<"-">> \o EncodeToString(<<IF sampled THEN SampledFlag ELSE 0>>)

\* the calls: ParseTraceparent on a header value, and FormatTraceparent
\* followed by ParseTraceparent on what it wrote
ParseTraceparentCall ==
    /\ arg.fn = "ParseTraceparent"
    /\ result = NoResult
    /\ result' = [fn |-> "ParseTraceparent", out |-> ParseTraceparent(arg.value)]
    /\ UNCHANGED <<opVars, traceVars, batchVars, bedrockVars, arg, carrier, exportCalls, last>>

FormatTraceparentCall ==
    /\ arg.fn = "FormatTraceparent"
    /\ result = NoResult
    /\ result' = [fn |-> "FormatTraceparent",
                  value |-> FormatTraceparent(arg.traceID, arg.spanID, arg.sampled)]
    /\ UNCHANGED <<opVars, traceVars, batchVars, bedrockVars, arg, carrier, exportCalls, last>>

ParseFormattedCall ==
    /\ result.fn = "FormatTraceparent"
    /\ result' = [fn |-> "ParseFormatted", value |-> result.value,
                  out |-> ParseTraceparent(result.value)]
    /\ UNCHANGED <<opVars, traceVars, batchVars, bedrockVars, arg, carrier, exportCalls, last>>

----------------------------------------------------------------------------
(* trace/w3c/w3c.go: tracestate *)

MaxTracestateEntries == 32
MaxTracestateKeyLen == 256
MaxTracestateValueLen == 256

ErrInvalidTracestate == "invalid tracestate header"

LowerLetters ==
    {"a", "b", "c", "d", "e", "f", "g", "h", "i", "j", "k", "l", "m",
     "n", "o", "p", "q", "r", "s", "t", "u", "v", "w", "x", "y", "z"}
UpperLetters ==
    {"A", "B", "C", "D", "E", "F", "G", "H", "I", "J", "K", "L", "M",
     "N", "O", "P", "Q", "R", "S", "T", "U", "V", "W", "X", "Y", "Z"}
\* the printable ASCII characters 0x20 to 0x7E that are neither letters nor
\* digits; the backquote 0x60 is not part of the model's alphabet
Punctuation ==
    {" ", "!", "\"", "#", "$", "%", "&", "'", "(", ")", "*", "+", ",", "-", ".", "/",
     ":", ";", "<", "=", ">", "?", "@", "[", "\\", "]", "^", "_", "{", "|", "}", "~"}
\* the white space strings.TrimSpace removes
WhiteSpace == {" ", "\t", "\n", "\r"}

\* strings.TrimSpace
RECURSIVE TrimSpace(_)
TrimSpace(s) ==
    IF Len(s) = 0 THEN s
    ELSE IF s[1] \in WhiteSpace THEN TrimSpace(Tail(s))
    ELSE IF s[Len(s)] \in WhiteSpace THEN TrimSpace(SubSeq(s, 1, Len(s) - 1))
    ELSE s

\* strings.SplitN(s, sep, 2)
SplitN2(s, sep) ==
    LET i == Index(s, sep)
    IN  IF i = 0 THEN <<s>>
        ELSE <<SubSeq(s, 1, i - 1), SubSeq(s, i + 1, Len(s))>>

isValidSimpleKey(key) ==
    /\ key # <<>>
    /\ \A i \in 1..Len(key) :
        key[i] \in LowerLetters \cup Digits \cup {"_", "-", "*", "/"}

IsValidTracestateKey(key) ==
    IF key = <<>> \/ Len(key) > MaxTracestateKeyLen THEN FALSE
    ELSE IF Index(key, "@") # 0
         THEN LET parts == Split(key, "@")
              IN  IF Len(parts) # 2 THEN FALSE
                  ELSE isValidSimpleKey(parts[1]) /\ isValidSimpleKey(parts[2])
         ELSE isValidSimpleKey(key)

\* a value check that lets the empty value pass
IsValidTracestateValueOrEmpty(value) ==
    IF Len(value) > MaxTracestateValueLen THEN FALSE
    ELSE \A i \in 1..Len(value) :
            /\ value[i] \in LowerLetters \cup UpperLetters \cup Digits \cup Punctuation
            /\ value[i] \notin {",", "="}

IsValidTracestateValue(value) ==
    IF value = <<>> \/ Len(value) > MaxTracestateValueLen THEN FALSE
    ELSE \A i \in 1..Len(value) :
            /\ value[i] \in LowerLetters \cup UpperLetters \cup Digits \cup Punctuation
            /\ value[i] \notin {",", "="}

\* entries = append(entries, entry): the new entry goes last
AppendEntry(entry, entries) == entries \o <<entry>>

\* entries = append([]Entry{entry}, entries...): the new entry goes first
PrependEntry(entry, entries) == <<entry>> \o entries

\* the loop of ParseTracestate from parts[i] down to the first part
RECURSIVE ParseTracestateLoop(_, _, _, _)
ParseTracestateLoop(parts, i, seen, entries) ==
    IF i = 0 THEN [entries |-> entries, err |-> "nil"]
    ELSE
    LET part == TrimSpace(parts[i])
        kv == SplitN2(part, "=")
        key == TrimSpace(kv[1])
        value == TrimSpace(kv[2])
    IN  IF part = <<>> THEN ParseTracestateLoop(parts, i - 1, seen, entries)
        ELSE IF Len(kv) # 2 THEN [entries |-> <<>>, err |-> ErrInvalidTracestate]
        ELSE IF ~IsValidTracestateKey(key) THEN [entries |-> <<>>, err |-> ErrInvalidTracestate]
        ELSE IF ~IsValidTracestateValue(value)
             THEN [entries |-> <<>>, err |-> ErrInvalidTracestate]
        ELSE IF key \in seen THEN ParseTracestateLoop(parts, i - 1, seen, entries)
        ELSE ParseTracestateLoop(parts, i - 1, seen \cup {key},
                                 PrependEntry([Key |-> key, Value |-> value], entries))

\* a parse that puts no limit on the number of parts
ParseTracestateUnlimited(value) ==
    IF value = <<>> THEN [entries |-> <<>>, err |-> "nil"]
    ELSE LET parts == Split(value, ",")
         IN  ParseTracestateLoop(parts, Len(parts), {}, <<>>)

ParseTracestate(value) ==
    IF value = <<>> THEN [entries |-> <<>>, err |-> "nil"]
    ELSE LET parts == Split(value, ",")
         IN  IF Len(parts) > MaxTracestateEntries
             THEN [entries |-> <<>>, err |-> ErrInvalidTracestate]
             ELSE ParseTracestateLoop(parts, Len(parts), {}, <<>>)

ParseTracestateCall ==
    /\ arg.fn = "ParseTracestate"
    /\ result = NoResult
    /\ result' = [fn |-> "ParseTracestate", out |-> ParseTracestate(arg.value)]
    /\ UNCHANGED <<opVars, traceVars, batchVars, bedrockVars, arg, carrier, exportCalls, last>>

\* the number of characters FormatTracestate means to propagate at least
MinPropagatedLen == 512

\* the loop of FormatTracestate from entries[i] on: totalLen grows by the
\* length of each part and by one for its comma
RECURSIVE FormatTracestateLoop(_, _, _, _)
FormatTracestateLoop(entries, i, parts, totalLen) ==
    IF i > Len(entries) THEN parts
    ELSE
    LET part == entries[i].Key \o <<"=">> \o entries[i].Value
    IN  IF totalLen + Len(part) > MinPropagatedLen /\ totalLen >= MinPropagatedLen
        THEN parts
        ELSE FormatTracestateLoop(entries, i + 1, Append(parts, part),
                                  totalLen + Len(part) + 1)

FormatTracestate(entries) ==
    IF Len(entries) = 0 THEN <<>>
    ELSE Join(FormatTracestateLoop(entries, 1, <<>>, 0), ",")

FormatTracestateCall ==
    /\ arg.fn = "FormatTracestate"
    /\ result = NoResult
    /\ result' = [fn |-> "FormatTracestate", out |-> FormatTracestate(arg.entries)]
    /\ UNCHANGED <<opVars, traceVars, batchVars, bedrockVars, arg, carrier, exportCalls, last>>

----------------------------------------------------------------------------
(* trace/http: the Propagator, with trace.SpanContext and http.Header *)

\* an http.Header with the two headers of the W3C Trace Context, each with
\* the list of its values; a carrier of another type is NotHeader
EmptyHeader == [type |-> "http.Header", traceparent |-> <<>>, tracestate |-> <<>>]
NotHeader == [type |-> "other"]

\* http.Header.Get: the first value of the header, "" when it has none
HeaderGet(h, name) == IF Len(h[name]) = 0 THEN <<>> ELSE h[name][1]

\* http.Header.Values
HeaderValues(h, name) == h[name]

\* http.Header.Set: the value replaces those the header had
HeaderSet(h, name, value) == [h EXCEPT ![name] = <<value>>]

\* the identifier a tracer drew, as the array of n bytes it is: the numbers
\* of the model are below 65536 and fill the last two bytes
IDBytes(id, n) ==
    [i \in 1..n |-> IF i = n THEN id % 256
                    ELSE IF i = n - 1 THEN (id \div 256) % 256
                    ELSE 0]

\* trace.SpanContext{}
ZeroSpanContext ==
    [TraceID |-> ZeroBytes(TraceIDSize), SpanID |-> ZeroBytes(SpanIDSize),
     Tracestate |-> <<>>, IsRemote |-> FALSE, Sampled |-> FALSE]

NewRemoteSpanContext(traceID, spanID, tracestate, sampled) ==
    [TraceID |-> traceID, SpanID |-> spanID, Tracestate |-> tracestate,
     IsRemote |-> TRUE, Sampled |-> sampled]

\* SpanContext.IsValid
IsValid(sc) == ~IsZero(sc.TraceID) /\ ~IsZero(sc.SpanID)

\* Span.tracestate: declared by the Span type and assigned by no code
SpanTracestate(s) == <<>>

\* SpanContextFromContext for a context that carries span s (0: no span)
SpanContextFromContext(s) ==
    IF s = 0 THEN ZeroSpanContext
    ELSE [TraceID |-> IDBytes(spans[s].traceID, TraceIDSize),
          SpanID |-> IDBytes(spans[s].spanID, SpanIDSize),
          Tracestate |-> SpanTracestate(s), IsRemote |-> FALSE, Sampled |-> TRUE]

ErrCarrier == "carrier must be http.Header"
ErrNoTraceparent == "traceparent header not found"
ErrParseTraceparent == "failed to parse traceparent"

\* what Extract returns with an error; wrapped is the error of
\* ParseTraceparent it wraps, parsedTracestate tells whether ParseTracestate
\* was called
ExtractFailure(err, wrapped) ==
    [sc |-> ZeroSpanContext, err |-> err, wrapped |-> wrapped, parsedTracestate |-> FALSE]

\* the tracestate Extract returns for the values of the tracestate header
ExtractTracestate(values) ==
    IF Len(values) > 0
    THEN LET tracestate == Join(values, ",")
         IN  IF ParseTracestate(tracestate).err # "nil" THEN <<>> ELSE tracestate
    ELSE <<>>

\* Extract that fails when the tracestate does not parse
ExtractStrict(c) ==
    IF c.type # "http.Header" THEN ExtractFailure(ErrCarrier, "nil")
    ELSE
    LET traceparent == HeaderGet(c, "traceparent")
        p == ParseTraceparent(traceparent)
        values == HeaderValues(c, "tracestate")
    IN  IF traceparent = <<>> THEN ExtractFailure(ErrNoTraceparent, "nil")
        ELSE IF p.err # "nil" THEN ExtractFailure(ErrParseTraceparent, p.err)
        ELSE IF Len(values) > 0 /\ ParseTracestate(Join(values, ",")).err # "nil"
             THEN [ExtractFailure(ErrInvalidTracestate, "nil") EXCEPT !.parsedTracestate = TRUE]
        ELSE [sc |-> NewRemoteSpanContext(p.traceID, p.spanID, ExtractTracestate(values),
                                          (p.flags \div SampledFlag) % 2 # 0),
              err |-> "nil", wrapped |-> "nil", parsedTracestate |-> Len(values) > 0]

\* Extract that reads the tracestate before it looks at the traceparent
ExtractStateFirst(c) ==
    IF c.type # "http.Header" THEN ExtractFailure(ErrCarrier, "nil")
    ELSE
    LET traceparent == HeaderGet(c, "traceparent")
        p == ParseTraceparent(traceparent)
        values == HeaderValues(c, "tracestate")
        failure == IF traceparent = <<>> THEN ExtractFailure(ErrNoTraceparent, "nil")
                   ELSE ExtractFailure(ErrParseTraceparent, p.err)
    IN  IF traceparent = <<>> \/ p.err # "nil"
        THEN [failure EXCEPT !.sc.Tracestate = ExtractTracestate(values),
                             !.parsedTracestate = Len(values) > 0]
        ELSE [sc |-> NewRemoteSpanContext(p.traceID, p.spanID, ExtractTracestate(values),
                                          (p.flags \div SampledFlag) % 2 # 0),
              err |-> "nil", wrapped |-> "nil", parsedTracestate |-> Len(values) > 0]

\* Propagator.Extract
Extract(c) ==
    IF c.type # "http.Header" THEN ExtractFailure(ErrCarrier, "nil")
    ELSE
    LET traceparent == HeaderGet(c, "traceparent")
        p == ParseTraceparent(traceparent)
        values == HeaderValues(c, "tracestate")
    IN  IF traceparent = <<>> THEN ExtractFailure(ErrNoTraceparent, "nil")
        ELSE IF p.err # "nil" THEN ExtractFailure(ErrParseTraceparent, p.err)
        ELSE [sc |-> NewRemoteSpanContext(p.traceID, p.spanID, ExtractTracestate(values),
                                          (p.flags \div SampledFlag) % 2 # 0),
              err |-> "nil", wrapped |-> "nil", parsedTracestate |-> Len(values) > 0]

\* Inject without the check of span.IsRecording()
InjectBodyUnchecked(s, headers) ==
    IF headers.type # "http.Header" THEN [carrier |-> headers, err |-> ErrCarrier]
    ELSE IF s = 0 THEN [carrier |-> headers, err |-> "nil"]
    ELSE
    LET traceparent == FormatTraceparent(IDBytes(spans[s].traceID, TraceIDSize),
                                         IDBytes(spans[s].spanID, SpanIDSize), TRUE)
        written == HeaderSet(headers, "traceparent", traceparent)
        spanCtx == SpanContextFromContext(s)
    IN  [carrier |-> IF spanCtx.Tracestate # <<>>
                     THEN HeaderSet(written, "tracestate", spanCtx.Tracestate)
                     ELSE written,
         err |-> "nil"]

\* Inject that writes the traceparent without the sampled flag
InjectBodyNotSampled(s, headers) ==
    IF headers.type # "http.Header" THEN [carrier |-> headers, err |-> ErrCarrier]
    ELSE IF s = 0 \/ ~IsRecording(s) THEN [carrier |-> headers, err |-> "nil"]
    ELSE
    LET traceparent == FormatTraceparent(IDBytes(spans[s].traceID, TraceIDSize),
                                         IDBytes(spans[s].spanID, SpanIDSize), FALSE)
        written == HeaderSet(headers, "traceparent", traceparent)
        spanCtx == SpanContextFromContext(s)
    IN  [carrier |-> IF spanCtx.Tracestate # <<>>
                     THEN HeaderSet(written, "tracestate", spanCtx.Tracestate)
                     ELSE written,
         err |-> "nil"]

\* Propagator.Inject for a context that carries span s (0: no span): the
\* carrier as the call leaves it, and the error returned
InjectBody(s, headers) ==
    IF headers.type # "http.Header" THEN [carrier |-> headers, err |-> ErrCarrier]
    ELSE IF s = 0 \/ ~IsRecording(s) THEN [carrier |-> headers, err |-> "nil"]
    ELSE
    LET traceparent == FormatTraceparent(IDBytes(spans[s].traceID, TraceIDSize),
                                         IDBytes(spans[s].spanID, SpanIDSize), TRUE)
        written == HeaderSet(headers, "traceparent", traceparent)
        spanCtx == SpanContextFromContext(s)
    IN  [carrier |-> IF spanCtx.Tracestate # <<>>
                     THEN HeaderSet(written, "tracestate", spanCtx.Tracestate)
                     ELSE written,
         err |-> "nil"]

\* Extract on the carrier of the incoming request
ExtractCall ==
    /\ arg.fn = "Extract"
    /\ result = NoResult
    /\ result' = [fn |-> "Extract", out |-> Extract(arg.carrier)]
    /\ UNCHANGED <<opVars, traceVars, batchVars, bedrockVars, arg, carrier, exportCalls, last>>

\* Inject on the carrier of the outgoing request, from a context that carries
\* span s (0: no span); span.IsRecording() takes the lock of the span.  The
\* history keeps the span, whether it was finalized, the carrier as it was
\* before the call, and the error returned.
Inject(s) ==
    /\ s # 0 => spans[s].mu = "free"
    /\ LET r == InjectBody(s, carrier)
       IN  /\ carrier' = r.carrier
           /\ last' = [op |-> "Inject", span |-> s,
                       finalized |-> IF s = 0 THEN FALSE ELSE spans[s].ended,
                       before |-> carrier, err |-> r.err]
    /\ UNCHANGED <<opVars, traceVars, batchVars, bedrockVars, arg, result, exportCalls>>

\* Extract on the carrier Inject wrote
ExtractInjectedCall ==
    /\ last.op = "Inject"
    /\ IF result.fn = "ExtractInjected" THEN result.carrier # carrier ELSE TRUE
    /\ result' = [fn |-> "ExtractInjected", carrier |-> carrier, out |-> Extract(carrier)]
    /\ UNCHANGED <<opVars, traceVars, batchVars, bedrockVars, arg, carrier, exportCalls, last>>

\* the middleware: Operation on the context of the request, with the option
\* WithRemoteParent(remoteCtx) when Extract returned no error and a valid
\* context.  Operation calls b.tracer.Start with the name and the
\* attributes; cfg.remoteParent is read by no code.
MiddlewareOperation(name, attrs, newTraceID, newSpanID) ==
    /\ result.fn = "Extract"
    /\ Start(0, 0, name, SpanKindInternal, attrs, newTraceID, newSpanID)

----------------------------------------------------------------------------
(* The tracer and its spans *)

Methods == {"SetAttr", "AddEvent", "RecordError", "SetStatus", "End"}

NoCall == [op |-> "none", span |-> 0, finalized |-> FALSE]

\* a processor nothing has been enqueued on, over a running exporter, and no
\* Bedrock.Shutdown call yet
NewProcessor(maxQueueSize, batchSize) ==
    /\ cfg = NewBatchProcessor(maxQueueSize, batchSize)
    /\ queue = <<>>
    /\ timer = 0
    /\ timers = <<>>
    /\ stopped = FALSE
    /\ bmu = Free
    /\ nEnq = 0
    /\ sd = <<>>
    /\ evicted = <<>>
    /\ accepted = {}
    /\ estopped = FALSE
    /\ teardown = <<>>
    /\ NoOperation

InitTracer(samplers, exporters) ==
    /\ NewProcessor(0, 0)
    /\ sampler \in {NewTracerSampler(c) : c \in samplers}
    /\ exporter \in exporters
    /\ spans = <<>>
    /\ started = <<>>
    /\ endReturning = <<>>
    /\ calls = 0
    /\ now = 1
    /\ exportCalls = <<>>
    /\ last = NoCall
    /\ arg = NoArg
    /\ result = NoResult
    /\ carrier = NoCarrier

\* a method call reaches s.mu.Lock(); calls that would pass the model's bounds
\* are not made
Call(s, m) ==
    /\ calls < MaxCalls
    /\ m \in {"AddEvent", "RecordError"} => (spans[s].ended \/ Len(spans[s].events) < MaxEvents)
    /\ SpanLock(s, m)

(* SpecSpan: the methods of Span, called by any number of goroutines on one
   span, live or dropped.  Spans share no state, and the identifiers play no
   part in the methods, so the specification follows the first span a tracer
   starts. *)

InitSpan == InitTracer({NewRatioSampler(50)}, BOOLEAN)

NextSpan ==
    \/ \E name \in Names, attrs \in StartAttrArgs :
            spans = <<>> /\ Start(0, 0, name, SpanKindServer, attrs, 1, 1)
    \/ \E s \in SpanRefs, m \in Methods : Call(s, m)
    \/ \E s \in SpanRefs : SetAttr(s)
    \/ \E s \in SpanRefs : AddEvent(s)
    \/ \E s \in SpanRefs : RecordErrorNil(s)
    \/ \E s \in SpanRefs : RecordError(s)
    \/ \E s \in SpanRefs : SetStatus(s)
    \/ \E s \in SpanRefs : End(s)
    \/ \E s \in SpanRefs : EndExport(s)
    \/ Tick

SpecSpan == InitSpan /\ [][NextSpan]_vars

(* SpecTrace: Tracer.Start under every sampler, on a tracer with an exporter,
   with parents taken from the context or given explicitly, and End on the
   spans it returns. *)

InitTrace == InitTracer(Samplers \cup {NilSampler}, {TRUE})

NextTrace ==
    \/ \E ctx \in 0..Len(spans), optParent \in 0..Len(spans), name \in Names,
          newTraceID \in IDs, newSpanID \in IDs :
            Len(spans) < MaxSpans
            /\ Start(ctx, optParent, name, SpanKindServer, <<>>, newTraceID, newSpanID)
    \/ \E s \in SpanRefs : Call(s, "End")
    \/ \E s \in SpanRefs : End(s)
    \/ \E s \in SpanRefs : EndExport(s)

SpecTrace == InitTrace /\ [][NextTrace]_vars

(* SpecBedrock: a Bedrock as New builds it, with or without a trace endpoint:
   a span started and ended on its tracer (spans share no state, so the
   specification follows the first), the goroutines End starts, and
   Bedrock.Shutdown.  Nothing in the repository calls EnqueueSpan, so the
   queue of its batch processor stays empty, b.batchProcessor.Shutdown finds
   nothing to export and returns nil. *)

InitBedrock == InitTracer({NilSampler, NewRatioSampler(50)}, BOOLEAN)

NextBedrock ==
    \/ \E name \in Names :
            spans = <<>> /\ Start(0, 0, name, SpanKindInternal, <<>>, 1, 1)
    \/ \E s \in SpanRefs : Call(s, "End")
    \/ \E s \in SpanRefs : End(s)
    \/ \E s \in SpanRefs : EndExport(s)
    \/ \E i \in 1..Len(exportCalls) : ExportSpans(i)
    \/ \E i \in 1..Len(exportCalls) : ExportSpansReturn(i)
    \/ BedrockShutdown
    \/ Shutdown
    \/ \E j \in 1..Len(sd) : BedrockShutdownProcessor(j)
    \/ BedrockShutdownNoProcessor
    \/ \E j \in DOMAIN teardown : BedrockShutdownTracer(j)

SpecBedrock == InitBedrock /\ [][NextBedrock]_vars

(* SpecTeardown: Bedrock.Shutdown on a Bedrock with a trace endpoint whose
   batch processor holds spans.  New does not connect End to EnqueueSpan, so
   here EnqueueSpan is called on b.batchProcessor directly, as code of package
   bedrock can. *)

InitTeardown == InitTracer({NilSampler}, {TRUE})

NextTeardown ==
    \/ nEnq < MaxExportEnqueues /\ EnqueueSpanLock
    \/ EnqueueSpan
    \/ \E id \in 1..Len(timers) : TimerFire(id)
    \/ \E id \in 1..Len(timers) : flushLock(id)
    \/ flush
    \/ \E i \in 1..Len(exportCalls) : ExportSpans(i)
    \/ \E i \in 1..Len(exportCalls) : ExportSpansReturn(i)
    \/ BedrockShutdown
    \/ Shutdown
    \/ \E i \in 1..Len(sd) : ShutdownExport(i)
    \/ \E j \in 1..Len(sd) : BedrockShutdownProcessor(j)
    \/ \E j \in DOMAIN teardown : BedrockShutdownTracer(j)

SpecTeardown == InitTeardown /\ [][NextTeardown]_vars

(* SpecExport: one exporter with both of its clients at work: a tracer whose
   span is ended, and a batch processor that is given spans through
   EnqueueSpan and shut down once; and the goroutines they start, whose
   requests may take any time or never end. *)

InitExport ==
    /\ NewProcessor(MaxCfgSize, MaxCfgSize)
    /\ sampler = AlwaysSampler
    /\ exporter = TRUE
    /\ spans = <<>>
    /\ started = <<>>
    /\ endReturning = <<>>
    /\ calls = 0
    /\ now = 1
    /\ exportCalls = <<>>
    /\ last = NoCall
    /\ arg = NoArg
    /\ result = NoResult
    /\ carrier = NoCarrier

NextExport ==
    \/ \E name \in Names :
            spans = <<>> /\ Start(0, 0, name, SpanKindInternal, <<>>, 1, 1)
    \/ \E s \in SpanRefs : Call(s, "End")
    \/ \E s \in SpanRefs : End(s)
    \/ \E s \in SpanRefs : EndExport(s)
    \/ \E i \in 1..Len(exportCalls) : ExportSpans(i)
    \/ \E i \in 1..Len(exportCalls) : ExportSpansReturn(i)
    \/ nEnq < MaxExportEnqueues /\ EnqueueSpanLock
    \/ EnqueueSpan
    \/ \E id \in 1..Len(timers) : TimerFire(id)
    \/ \E id \in 1..Len(timers) : flushLock(id)
    \/ flush
    \/ sd = <<>> /\ ShutdownLock
    \/ Shutdown
    \/ \E i \in 1..Len(sd) : ShutdownExport(i)

SpecExport == InitExport /\ [][NextExport]_vars

(* SpecTraceparent: ParseTraceparent on header values put together from
   fields of every kind (well-formed, too short, too long, upper case, not
   hex, all zeros, missing), and FormatTraceparent on identifiers followed by
   ParseTraceparent on its result. *)

\* everything but the pure function under study is at rest
Idle ==
    /\ NewProcessor(0, 0)
    /\ sampler = AlwaysSampler
    /\ exporter = FALSE
    /\ spans = <<>>
    /\ started = <<>>
    /\ endReturning = <<>>
    /\ calls = 0
    /\ now = 1
    /\ exportCalls = <<>>
    /\ last = NoCall

\* the sequences over S of length n at most
SeqsUpTo(S, n) == UNION {[1..k -> S] : k \in 0..n}

VersionFields ==
    {<<"0", "0">>, <<"0", "1">>, <<"c", "C">>, <<"f", "f">>, <<"F", "F">>, <<"f", "F">>,
     <<"0", "g">>, <<"0">>}

\* hex fields of n characters and their defects
IDFields(n) ==
    {Rep("0", n - 1) \o <<"1">>,
     <<"a", "f">> \o Rep("9", n - 2),
     Rep("0", n),
     <<"A">> \o Rep("1", n - 1),
     Rep("1", n - 1) \o <<"g">>,
     Rep("1", n - 1),
     Rep("1", n + 4)}

FlagsFields ==
    {<<"0", "0">>, <<"0", "1">>, <<"f", "e">>, <<"0", "B">>, <<"0", "g">>, <<"1">>,
     <<"0", "1", "0">>}

ExtraFields == {<<>>, <<"x", "y">>}

\* what follows the parent-id: nothing, or the flags and the extra fields
Tails ==
    {<<>>} \cup {<<f>> \o e : f \in FlagsFields, e \in SeqsUpTo(ExtraFields, MaxExtraFields)}

TraceparentValues ==
    {Join(<<v, t, p>> \o tail, "-") :
        v \in VersionFields, t \in IDFields(traceIDLen), p \in IDFields(spanIDLen),
        tail \in Tails}

Bytes == {0, 1, 171, 255}

\* identifiers of n bytes: one byte b among bytes c
IDValues(n) == {[i \in 1..n |-> IF i = p THEN b ELSE c] : p \in {1, n}, b \in Bytes, c \in Bytes}

InitTraceparent ==
    /\ Idle
    /\ \/ \E value \in TraceparentValues : arg = [fn |-> "ParseTraceparent", value |-> value]
       \/ \E traceID \in IDValues(TraceIDSize), spanID \in IDValues(SpanIDSize),
             sampled \in BOOLEAN :
                arg = [fn |-> "FormatTraceparent", traceID |-> traceID, spanID |-> spanID,
                       sampled |-> sampled]
    /\ result = NoResult
    /\ carrier = NoCarrier

NextTraceparent ==
    \/ ParseTraceparentCall
    \/ FormatTraceparentCall
    \/ ParseFormattedCall

SpecTraceparent == InitTraceparent /\ [][NextTraceparent]_vars

(* SpecTracestate: ParseTracestate on header values put together from
   members of every kind: entries of two keys with several values, with and
   without white space, a multi-tenant key, empty members, and members that
   are no entry; and FormatTracestate on lists of entries with short keys and
   values and with keys and values about as long as the parser allows. *)

\* a list member as its text, with the key and the value it stands for; an
\* empty member has kind "empty", a member that is no valid entry "bad"
Member(text, kind, key, val) == [text |-> text, kind |-> kind, key |-> key, val |-> val]

TracestateMembers ==
    {Member(<<"a", "=", "1">>, "entry", <<"a">>, <<"1">>),
     Member(<<"a", "=", "2">>, "entry", <<"a">>, <<"2">>),
     Member(<<"b", "=", "1">>, "entry", <<"b">>, <<"1">>),
     Member(<<" ", "b", " ", "=", " ", "2", "\t">>, "entry", <<"b">>, <<"2">>),
     Member(<<"t", "@", "s", "=", "A", " ", "z">>, "entry", <<"t", "@", "s">>, <<"A", " ", "z">>),
     Member(<<>>, "empty", <<>>, <<>>),
     Member(<<" ">>, "empty", <<>>, <<>>),
     Member(<<"a">>, "bad", <<>>, <<>>),
     Member(<<"A", "=", "1">>, "bad", <<>>, <<>>),
     Member(<<"a", "=">>, "bad", <<>>, <<>>),
     Member(<<"a", "=", "1", "=", "2">>, "bad", <<>>, <<>>),
     Member(<<"=", "1">>, "bad", <<>>, <<>>),
     Member(<<"@", "s", "=", "1">>, "bad", <<>>, <<>>),
     Member(<<"a", "@", "b", "@", "c", "=", "1">>, "bad", <<>>, <<>>),
     Member(<<"a", "=", "1", "\r", "2">>, "bad", <<>>, <<>>)}

\* members whose key or value has the greatest length allowed, or one more
LongMembers ==
    {Member(Rep("k", MaxTracestateKeyLen) \o <<"=", "1">>, "entry",
            Rep("k", MaxTracestateKeyLen), <<"1">>),
     Member(Rep("k", MaxTracestateKeyLen + 1) \o <<"=", "1">>, "bad", <<>>, <<>>),
     Member(<<"a", "=">> \o Rep("v", MaxTracestateValueLen), "entry",
            <<"a">>, Rep("v", MaxTracestateValueLen)),
     Member(<<"a", "=">> \o Rep("v", MaxTracestateValueLen + 1), "bad", <<>>, <<>>)}

\* the i-th of the entries k01=v, k02=v, ... with keys that all differ
NumberedMember(i) ==
    LET key == <<"k", hextable[(i \div 10) + 1], hextable[(i % 10) + 1]>>
    IN  Member(key \o <<"=", "v">>, "entry", key, <<"v">>)

\* the numbers of members around the limit
EntryCounts == (MaxTracestateEntries - 1)..(MaxTracestateEntries + 2)

\* the lists of members ParseTracestate is called on: every short list, a
\* long member alone, before and after a short one, and lists about as long
\* as the limit: one member among copies of another, and entries whose keys
\* all differ
TracestateLists ==
    SeqsUpTo(TracestateMembers, MaxParts)
    \cup {<<m>> : m \in LongMembers}
    \cup {<<m, s>> : m \in LongMembers, s \in TracestateMembers}
    \cup {<<s, m>> : m \in LongMembers, s \in TracestateMembers}
    \cup {[i \in 1..n |-> IF i = p THEN m1 ELSE m2] :
                n \in EntryCounts, p \in {1, MaxTracestateEntries},
                m1 \in TracestateMembers, m2 \in TracestateMembers}
    \cup {[i \in 1..n |-> NumberedMember(i)] : n \in EntryCounts}

\* the entries FormatTracestate is called on, by the lengths of key and value
KeyLens == {1, MaxTracestateKeyLen - 2, MaxTracestateKeyLen - 1, MaxTracestateKeyLen}
ValueLens == {1, MaxTracestateValueLen}
FormatEntries ==
    {[Key |-> Rep("k", kl), Value |-> Rep("v", vl)] : kl \in KeyLens, vl \in ValueLens}

InitTracestate ==
    /\ Idle
    /\ \/ \E members \in TracestateLists :
            arg = [fn |-> "ParseTracestate", members |-> members,
                   value |-> Join([i \in 1..Len(members) |-> members[i].text], ",")]
       \/ \E entries \in SeqsUpTo(FormatEntries, MaxParts) :
            arg = [fn |-> "FormatTracestate", entries |-> entries]
    /\ result = NoResult
    /\ carrier = NoCarrier

NextTracestate ==
    \/ ParseTracestateCall
    \/ FormatTracestateCall

SpecTracestate == InitTracestate /\ [][NextTracestate]_vars

(* SpecPropagator: a request handled by the HTTP middleware and a request
   going out.  The incoming carrier holds any combination of traceparent and
   tracestate headers: missing, one value, several values, well-formed or
   not.  Extract runs on it, the middleware starts its operation, the span
   ends at some time, and Inject runs at any time on the outgoing carrier,
   from a context with or without the span; Extract runs on what Inject
   wrote. *)

\* the trace IDs and the span IDs the tracer draws: with and without letters
\* in hex
WireIDs == {1, 43981}
NewSpanIDs == {43981}

\* identifiers that come in over the wire
WireTraceIDs == {IDBytes(1, TraceIDSize), [i \in 1..TraceIDSize |-> IF i = 1 THEN 10 ELSE 171]}
WireSpanIDs == {[i \in 1..SpanIDSize |-> IF i = SpanIDSize THEN 49 ELSE 183]}
WireFlags == {0, 1, 2, 3}

\* the text of a traceparent of the given version
WireTraceparent(version, traceID, spanID, flags) ==
    Join(<<version, EncodeToString(traceID), EncodeToString(spanID), EncodeToString(<<flags>>)>>,
         "-")

\* a traceparent header as the list of its values, with what the first value
\* stands for: kind is "valid", "missing" or "bad"
TraceparentCase(kind, values, traceID, spanID, flags) ==
    [kind |-> kind, values |-> values, traceID |-> traceID, spanID |-> spanID, flags |-> flags]

BadTraceparents ==
    {<<"i", "n", "v", "a", "l", "i", "d">>,
     WireTraceparent(<<"f", "f">>, IDBytes(1, TraceIDSize), IDBytes(1, SpanIDSize), 1),
     WireTraceparent(<<"0", "0">>, ZeroBytes(TraceIDSize), IDBytes(1, SpanIDSize), 1),
     <<"0", "0", "-">> \o EncodeToStringUpper([i \in 1..TraceIDSize |-> 171]) \o <<"-">>
        \o EncodeToString(IDBytes(1, SpanIDSize)) \o <<"-", "0", "1">>}

TraceparentCases ==
    {TraceparentCase("missing", <<>>, <<>>, <<>>, 0),
     TraceparentCase("missing", << <<>> >>, <<>>, <<>>, 0)}
    \cup {TraceparentCase("valid", <<WireTraceparent(<<"0", "0">>, t, p, f)>>, t, p, f) :
                t \in WireTraceIDs, p \in WireSpanIDs, f \in WireFlags}
    \cup {TraceparentCase("valid",
                          <<WireTraceparent(<<"c", "c">>, t, p, 1) \o <<"-", "x">>, b>>, t, p, 1) :
                t \in WireTraceIDs, p \in WireSpanIDs,
                b \in {<<"i", "n", "v", "a", "l", "i", "d">>}}
    \cup {TraceparentCase("bad", <<b>>, <<>>, <<>>, 0) : b \in BadTraceparents}
    \cup {TraceparentCase("bad", <<b, WireTraceparent(<<"0", "0">>, t, p, 1)>>, <<>>, <<>>, 0) :
                b \in {<<"i", "n", "v", "a", "l", "i", "d">>},
                t \in WireTraceIDs, p \in WireSpanIDs}

\* tracestate headers as the list of their values; ok tells whether the
\* values joined by commas are a tracestate that parses
TracestateCase(values, ok) == [values |-> values, ok |-> ok]

TracestateCases ==
    {TracestateCase(<<>>, TRUE),
     TracestateCase(<< <<>> >>, TRUE),
     TracestateCase(<< <<"a", "=", "1", ",", "b", "=", "1">> >>, TRUE),
     TracestateCase(<< <<"a", "=", "1">>, <<" ", "b", " ", "=", " ", "2", "\t">> >>, TRUE),
     TracestateCase(<< <<"a", "=", "1", ",">>, <<"a", "=", "2">> >>, TRUE),
     TracestateCase(<< <<"i", "n", "v", "a", "l", "i", "d", " ", "e", "n", "t", "r", "y">> >>,
                    FALSE),
     TracestateCase(<< <<"a", "=", "1">>, <<"A", "=", "1">> >>, FALSE)}

\* the carriers of incoming requests
IncomingRequests ==
    {[fn |-> "Extract", tp |-> tp, ts |-> ts,
      carrier |-> [type |-> "http.Header", traceparent |-> tp.values, tracestate |-> ts.values]] :
        tp \in TraceparentCases, ts \in TracestateCases}
    \cup {[fn |-> "Extract", tp |-> TraceparentCase("missing", <<>>, <<>>, <<>>, 0),
           ts |-> TracestateCase(<<>>, TRUE), carrier |-> NotHeader]}

\* the carriers of outgoing requests before Inject: no header, headers set
\* by the caller, and a carrier that is no http.Header
OutgoingCarriers ==
    {EmptyHeader,
     [type |-> "http.Header",
      traceparent |-> <<WireTraceparent(<<"0", "0">>, IDBytes(2, TraceIDSize),
                                        IDBytes(2, SpanIDSize), 0)>>,
      tracestate |-> << <<"x", "=", "1">> >>],
     NotHeader}

InitPropagator ==
    /\ NewProcessor(0, 0)
    /\ sampler \in {NewTracerSampler(c) : c \in {NilSampler, NeverSampler}}
    /\ exporter = TRUE
    /\ spans = <<>>
    /\ started = <<>>
    /\ endReturning = <<>>
    /\ calls = 0
    /\ now = 1
    /\ exportCalls = <<>>
    /\ last = NoCall
    /\ arg \in IncomingRequests
    /\ result = NoResult
    /\ carrier \in OutgoingCarriers

NextPropagator ==
    \/ ExtractCall
    \/ \E name \in Names, newTraceID \in WireIDs, newSpanID \in NewSpanIDs :
            spans = <<>> /\ MiddlewareOperation(name, <<>>, newTraceID, newSpanID)
    \/ \E s \in SpanRefs : Call(s, "End")
    \/ \E s \in SpanRefs : End(s)
    \/ \E s \in SpanRefs : EndExport(s)
    \/ \E s \in 0..Len(spans) : Inject(s)
    \/ ExtractInjectedCall

SpecPropagator == InitPropagator /\ [][NextPropagator]_vars

(* SpecOperation: goroutines that start child operations and steps under
   one operation, register an error on it and call Done on it, any number of
   times. *)

OperationNext(callSet, maxCalls) ==
    \/ \E g \in Goroutines, call \in callSet : GoCall(g, call, maxCalls)
    \/ \E g \in Goroutines : GoLock(g)
    \/ \E g \in Goroutines : GoDo(g)

InitOperation ==
    /\ Idle
    /\ arg = NoArg
    /\ result = NoResult
    /\ carrier = NoCarrier

SpecOperation == InitOperation /\ [][OperationNext(NamingCalls, MaxOpCalls)]_vars

(* SpecLocks: goroutines in the calls of package bedrock, of Span, of the
   batch processor and of the exporter that take a mutex, on shared objects. *)

SpecLocks == InitOperation /\ [][OperationNext(LockingCalls, MaxLockCalls)]_vars

(* SpecBatch: a BatchProcessor under every configuration, with concurrent
   EnqueueSpan calls, timers that fire, and Shutdown calls. *)

NoBatchCall == [op |-> "none", span |-> 0, stopped |-> FALSE]

InitBatch ==
    /\ \E maxQueueSize \in CfgSizes, batchSize \in CfgSizes :
            NewProcessor(maxQueueSize, batchSize)
    /\ sampler = AlwaysSampler
    /\ exporter = TRUE
    /\ spans = <<>>
    /\ started = <<>>
    /\ endReturning = <<>>
    /\ calls = 0
    /\ now = 1
    /\ exportCalls = <<>>
    /\ last = NoBatchCall
    /\ arg = NoArg
    /\ result = NoResult
    /\ carrier = NoCarrier

NextBatch ==
    \/ EnqueueSpanLock
    \/ EnqueueSpan
    \/ \E id \in 1..Len(timers) : TimerFire(id)
    \/ \E id \in 1..Len(timers) : flushLock(id)
    \/ flush
    \/ ShutdownLock
    \/ Shutdown
    \/ \E i \in 1..Len(sd) : ShutdownExport(i)

SpecBatch == InitBatch /\ [][NextBatch]_vars

(* SpecBatchLive: SpecBatch with the runtime's part: an armed timer fires, and
   a goroutine that can take a step takes one (the callback of a fired timer
   gets the lock, a critical section runs to its end, Shutdown makes its
   ExportSpans call).  Nothing makes a caller call EnqueueSpan or Shutdown. *)

TimerFires(id) == id \in 1..Len(timers) /\ TimerFire(id)

flushLocks(id) == id \in 1..Len(timers) /\ flushLock(id)

ShutdownExports(i) == i \in 1..Len(sd) /\ ShutdownExport(i)

FairBatch ==
    /\ \A id \in 1..MaxEnqueues : WF_vars(TimerFires(id)) /\ WF_vars(flushLocks(id))
    /\ \A i \in 1..MaxShutdowns : WF_vars(ShutdownExports(i))
    /\ WF_vars(EnqueueSpan)
    /\ WF_vars(flush)
    /\ WF_vars(Shutdown)

\* the sizes a configuration of SpecBatchLive is given: the default, and the
\* sizes that make EnqueueSpan evict and flush within MaxLiveEnqueues calls
LiveCfgSizes == {0, 1, 2}

InitBatchLive ==
    /\ InitBatch
    /\ \E maxQueueSize \in LiveCfgSizes, batchSize \in LiveCfgSizes :
            cfg = NewBatchProcessor(maxQueueSize, batchSize)

NextBatchLive ==
    \/ nEnq < MaxLiveEnqueues /\ EnqueueSpanLock
    \/ EnqueueSpan
    \/ \E id \in 1..Len(timers) : TimerFire(id)
    \/ \E id \in 1..Len(timers) : flushLock(id)
    \/ flush
    \/ Len(sd) < MaxLiveShutdowns /\ ShutdownLock
    \/ Shutdown
    \/ \E i \in 1..Len(sd) : ShutdownExport(i)

SpecBatchLive == InitBatchLive /\ [][NextBatchLive]_vars /\ FairBatch

----------------------------------------------------------------------------
(* Properties of Span and Tracer *)

\* the ExportSpans calls dispatched by End that carry span s
EndCallsOf(s) ==
    {i \in 1..Len(exportCalls) :
        /\ exportCalls[i].by = "End"
        /\ \E j \in 1..Len(exportCalls[i].spans) : exportCalls[i].spans[j] = s}

\* C1 (state part): a live span on a tracer with an exporter is dispatched at
\* most once, in a batch that holds that span alone; it is not dispatched
\* before it is ended, and it has been dispatched exactly once when the End
\* call that finalized it has gone through tracer.export.
C1_OneDispatch ==
    \A s \in SpanRefs :
        (spans[s].tracer /\ exporter) =>
            /\ Cardinality(EndCallsOf(s)) <= 1
            /\ \A i \in EndCallsOf(s) : exportCalls[i].spans = <<s>>
            /\ ~spans[s].ended => EndCallsOf(s) = {}
            /\ (spans[s].ended /\ endReturning[s] = 0) => Cardinality(EndCallsOf(s)) = 1

\* C1 (step part): the critical section of End on a span that is already
\* finalized changes nothing but the mutex: the end time stays, no export is
\* pending and none is dispatched.
C1_LaterEndNoop ==
    \A s \in SpanRefs :
        (spans[s].ended /\ spans[s].mu = "End" /\ spans'[s].mu = "free") =>
            /\ spans'[s] = [spans[s] EXCEPT !.mu = "free"]
            /\ endReturning' = endReturning
            /\ exportCalls' = exportCalls

\* C1: any number of End calls on a live span whose tracer has an exporter
\* produce exactly one export dispatch, whose batch is that span alone, and
\* every End after the first changes nothing, the end time included.
C1_EndOnce == []C1_OneDispatch /\ [][C1_LaterEndNoop]_vars

\* a second End has returned, at a later time than the first, on a live span
\* that was dispatched once
C1_Witness ==
    /\ last.op = "End" /\ last.finalized
    /\ exporter /\ spans[last.span].tracer
    /\ now > spans[last.span].endTime
    /\ Cardinality(EndCallsOf(last.span)) = 1

\* C2: on a finalized span (ended by End, or created dropped) no step changes
\* the attribute set, the event list, the status or the status message.
C2_FinalizedFrozenStep ==
    \A s \in SpanRefs :
        spans[s].ended =>
            /\ spans'[s].attrs = spans[s].attrs
            /\ spans'[s].events = spans[s].events
            /\ spans'[s].status = spans[s].status
            /\ spans'[s].statusMsg = spans[s].statusMsg

C2_FinalizedFrozen == [][C2_FinalizedFrozenStep]_vars

\* SetAttr has run on a span that End had finalized
C2_Witness ==
    /\ last.op = "SetAttr" /\ last.finalized
    /\ spans[last.span].tracer

\* the step in which RecordError(err), err not nil, leaves its critical section
\* on span s
RecordErrorReturns(s) == spans[s].mu = "RecordError" /\ spans'[s].mu = "free"

\* C30: RecordError(err) with a non-nil err on a span that is not finalized
\* appends exactly one event, named "exception", at the end of the event list
\* and sets the status to error with the message err.Error() (the message the
\* event carries as exception.message); on a finalized span, and with a nil
\* err, it changes no span.
C30_RecordErrorStep ==
    /\ \A s \in SpanRefs :
        RecordErrorReturns(s) =>
            IF spans[s].ended
            THEN spans' = [spans EXCEPT ![s].mu = "free"]
            ELSE LET n == Len(spans[s].events)
                     ev == spans'[s].events[n + 1]
                 IN  /\ Len(spans'[s].events) = n + 1
                     /\ SubSeq(spans'[s].events, 1, n) = spans[s].events
                     /\ ev.Name = "exception"
                     /\ ev.Attrs["exception.type"] = "error"
                     /\ ev.Attrs["exception.message"] \in Errs \ {NilErr}
                     /\ spans'[s].status = StatusError
                     /\ spans'[s].statusMsg = ev.Attrs["exception.message"]
                     /\ spans'[s].attrs = spans[s].attrs
                     /\ spans'[s].ended = spans[s].ended
                     /\ \A o \in SpanRefs \ {s} : spans'[o] = spans[o]
    /\ (last'.op = "RecordErrorNil" /\ last' # last) => spans' = spans

C30_RecordError == [][C30_RecordErrorStep]_vars

\* RecordError has returned on a live span that had an event: its event is the
\* second one and the status is error with its message
C30_Witness ==
    /\ last.op = "RecordError" /\ ~last.finalized
    /\ Len(spans[last.span].events) = 2
    /\ spans[last.span].events[1].Name # "exception"
    /\ spans[last.span].events[2].Name = "exception"
    /\ spans[last.span].status = StatusError
    /\ spans[last.span].statusMsg = "eof"

\* RecordError has returned on a span that End had finalized
C30_WitnessFinalized ==
    /\ last.op = "RecordError" /\ last.finalized
    /\ spans[last.span].tracer
    /\ spans[last.span].events = <<>>

\* RecordError(nil) has returned on a live span
C30_WitnessNil ==
    /\ last.op = "RecordErrorNil" /\ ~last.finalized
    /\ spans[last.span].status = StatusUnset

\* C31: for every span IsRecording() is false exactly when the end time is
\* set, and Duration() of a finalized span (ended by End, or created dropped)
\* is end minus start whenever it is called.
C31_EndTimeIffFinalized ==
    \A s \in SpanRefs :
        /\ ~IsRecording(s) <=> spans[s].endTime # ZeroTime
        /\ ~IsRecording(s) => Duration(s, now) = spans[s].endTime - spans[s].startTime

\* the same for the spans that were not created dropped; a dropped span is
\* finalized with the end time unset, and its Duration() is now minus start
C31_EndTimeOfSampled ==
    \A s \in SpanRefs :
        IF spans[s].tracer
        THEN /\ ~IsRecording(s) <=> spans[s].endTime # ZeroTime
             /\ ~IsRecording(s) => Duration(s, now) = spans[s].endTime - spans[s].startTime
        ELSE /\ ~IsRecording(s) /\ spans[s].endTime = ZeroTime
             /\ Duration(s, now) = now - spans[s].startTime

\* time has passed since a dropped span was started, and End has run on it
C31_DroppedLater ==
    /\ last.op = "End" /\ ~spans[last.span].tracer
    /\ now > spans[last.span].startTime

\* the first span of the chain of contexts s was started in: s itself when it
\* was started with an explicit parent or in a context without a span
RECURSIVE ChainRoot(_)
ChainRoot(s) ==
    IF started[s].optParent = 0 /\ started[s].ctx # 0
    THEN ChainRoot(started[s].ctx)
    ELSE s

Dropped(s) == started[s].decision = SamplingDecisionDrop

\* C9: with a ParentBasedSampler every span of a chain of contexts has the
\* sampling outcome of the chain's root: dropped (not recording, never
\* exported) if the root was dropped, sampled if the root was sampled.
C9_WholeTraceOutcome ==
    sampler.type = "ParentBased" =>
        \A s \in SpanRefs :
            /\ Dropped(ChainRoot(s)) =>
                    (Dropped(s) /\ ~IsRecording(s) /\ EndCallsOf(s) = {})
            /\ ~Dropped(ChainRoot(s)) => ~Dropped(s)

\* d is a decision the root sampler r returns
RootDecision(r, d) ==
    CASE r.type = "Always" -> d = SamplingDecisionRecordAndSample
      [] r.type = "Never" -> d = SamplingDecisionDrop
      [] r.type = "Ratio" ->
            /\ d \in {SamplingDecisionRecordAndSample, SamplingDecisionDrop}
            /\ r.ratio = 0 => d = SamplingDecisionDrop
            /\ r.ratio = 100 => d = SamplingDecisionRecordAndSample
      [] OTHER -> FALSE

\* C29: the decision of a ParentBasedSampler is record-and-sample when
\* parentSampled is true, whatever its root sampler; when parentSampled is
\* false it is a decision of the root sampler, and drop without a root
\* sampler.  Start passes parentSampled = true exactly when it resolved a
\* parent.
C29_ParentBased ==
    sampler.type = "ParentBased" =>
        \A i \in 1..Len(started) :
            IF started[i].parent # 0
            THEN started[i].decision = SamplingDecisionRecordAndSample
            ELSE IF sampler.root = NilSampler
                 THEN started[i].decision = SamplingDecisionDrop
                 ELSE RootDecision(sampler.root, started[i].decision)

\* a ParentBasedSampler over NeverSampler has dropped a span started without
\* parent and sampled a span started with that span as parent
C29_Witness ==
    /\ sampler = NewParentBasedSampler(NeverSampler)
    /\ \E i, j \in 1..Len(started) :
        /\ started[i].parent = 0
        /\ started[i].decision = SamplingDecisionDrop
        /\ started[j].parent = i
        /\ started[j].decision = SamplingDecisionRecordAndSample

\* a ParentBasedSampler without root sampler has dropped a span started
\* without parent
C29_WitnessNoRoot ==
    /\ sampler = NewParentBasedSampler(NilSampler)
    /\ \E i \in 1..Len(started) :
        started[i].parent = 0 /\ started[i].decision = SamplingDecisionDrop

\* C10: a span started with decision drop carries the resolved trace ID and
\* parent ID, is not recording, and no End call on it reaches the exporter.
C10_DroppedSpanInert ==
    \A s \in SpanRefs :
        Dropped(s) =>
            LET parent == started[s].parent
            IN  /\ parent # 0 => /\ spans[s].traceID = spans[parent].traceID
                                 /\ spans[s].parentID = spans[parent].spanID
                /\ parent = 0 => /\ spans[s].traceID \in IDs
                                 /\ spans[s].parentID = ZeroID
                /\ ~IsRecording(s)
                /\ EndCallsOf(s) = {}
                /\ endReturning[s] = 0

\* End has returned on a dropped span that has a parent
C10_Witness ==
    /\ last.op = "End"
    /\ Dropped(last.span)
    /\ started[last.span].parent # 0
    /\ exporter

----------------------------------------------------------------------------
(* Properties of Bedrock: the tracer, the exporter and the batch processor
   as New wires them *)

\* C12: once End has finished on a live span of a Bedrock with a trace
\* endpoint, the span has been handed to EnqueueSpan, and no ExportSpans call
\* was made for it on the side of the batch processor.
C12_EndEntersQueue ==
    \A s \in SpanRefs :
        (exporter /\ spans[s].tracer /\ spans[s].ended /\ endReturning[s] = 0) =>
            /\ nEnq > 0
            /\ EndCallsOf(s) = {}

\* the Bedrock.Shutdown calls that have returned
TeardownsDone == {j \in DOMAIN teardown : teardown[j].pc = "done"}

\* C13 (step part): the goroutine of an export dispatched by End that gets to
\* run only after the exporter was stopped sends nothing, and a call that was
\* skipped stays skipped: the span is never transmitted.
C13_LateExportSkipped ==
    \A i \in 1..Len(exportCalls) :
        /\ (exportCalls[i].ret = "async" /\ estopped) =>
                exportCalls'[i].ret \in {"async", "skipped"}
        /\ exportCalls[i].ret = "skipped" => exportCalls'[i] = exportCalls[i]

\* C13 (state part): no step of Bedrock.Shutdown waits for the goroutines
\* started by End: whatever has been dispatched and not run, a call that has
\* come back from b.batchProcessor.Shutdown can go on to Tracer.Shutdown, and
\* one that is in Tracer.Shutdown can stop the exporter and return.
C13_ShutdownNeverWaits ==
    /\ \A j \in 1..Len(sd) :
            (exporter /\ sd[j].pc = "done" /\ j \notin DOMAIN teardown) =>
                ENABLED BedrockShutdownProcessor(j)
    /\ \A j \in DOMAIN teardown :
            teardown[j].pc = "tracer" => ENABLED BedrockShutdownTracer(j)

Detached == {"async", "skipped", "running", "sent", "failed"}

\* C14 (state part): whatever ExportSpans calls are in progress, each of
\* which may never return, the critical sections of End, EnqueueSpan, flush
\* and Shutdown can run and release their mutex, and End can go on to
\* dispatch; every call issued by End, EnqueueSpan or flush is detached; the
\* only calls made in the caller's own goroutine are Shutdown's, and the
\* Shutdown call about to make one has released the processor mutex.
C14_NeverBlocked ==
    /\ \A s \in SpanRefs :
        /\ spans[s].mu = "End" => ENABLED End(s)
        /\ endReturning[s] > 0 => ENABLED EndExport(s)
    /\ bmu.op = "EnqueueSpan" => ENABLED EnqueueSpan
    /\ bmu.op = "flush" => ENABLED flush
    /\ bmu.op = "Shutdown" => ENABLED Shutdown
    /\ \A i \in 1..Len(exportCalls) :
        IF exportCalls[i].by = "Shutdown"
        THEN exportCalls[i].ctx = "caller" /\ exportCalls[i].ret \in ExportErrs
        ELSE exportCalls[i].ctx = "background" /\ exportCalls[i].ret \in Detached
    /\ \A i \in 1..Len(sd) :
        sd[i].pc = "export" => bmu # [op |-> "Shutdown", arg |-> i]

\* C14 (step part): a step of EnqueueSpan or flush that issues an ExportSpans
\* call leaves the call not yet running and the processor mutex free; a step
\* of End that issues one leaves it not yet running, and End held no mutex.
C14_DispatchStep ==
    Len(exportCalls') > Len(exportCalls) =>
        LET call == exportCalls'[Len(exportCalls')]
        IN  /\ call.by \in {"EnqueueSpan", "flush"} => (call.ret = "async" /\ bmu' = Free)
            /\ call.by = "End" =>
                    /\ call.ret = "async"
                    /\ \A s \in SpanRefs : spans'[s] = spans[s]
            /\ call.by = "Shutdown" => bmu' = bmu

\* C14: End, EnqueueSpan and the timer's flush never wait for ExportSpans and
\* hold no mutex while it runs; only Shutdown waits for it, with the
\* processor mutex released.
C14_NonBlocking == []C14_NeverBlocked /\ [][C14_DispatchStep]_vars

\* End has returned and the request of its export is in progress; after it
\* was dispatched an EnqueueSpan made a size-triggered flush and returned, and
\* the request of that flush is in progress too
C14_Witness ==
    /\ last.op = "EnqueueSpan"
    /\ bmu = Free
    /\ \E i, k \in 1..Len(exportCalls) :
        /\ i < k
        /\ exportCalls[i].by = "End" /\ exportCalls[i].ret = "running"
        /\ exportCalls[k].by = "EnqueueSpan" /\ exportCalls[k].ret = "running"
        /\ \A s \in SpanRefs : endReturning[s] = 0

----------------------------------------------------------------------------
(* Properties of the traceparent functions *)

\* the fields of the header value given to ParseTraceparent; k-th field, or
\* the empty string if there is none
ArgFields == Split(arg.value, "-")
ArgField(k) == IF k <= Len(ArgFields) THEN ArgFields[k] ELSE <<>>

\* C16: for non-zero identifiers, parsing what FormatTraceparent wrote
\* succeeds and gives back the trace ID, the span ID and a flags byte whose
\* bit 0 is the sampled flag; and for all identifiers what it wrote starts
\* with version 00 and has no character but lower-case hex digits and dashes.
C16_RoundTrip ==
    /\ result.fn \in {"FormatTraceparent", "ParseFormatted"} =>
        /\ SubSeq(result.value, 1, 3) = <<"0", "0", "-">>
        /\ \A i \in 1..Len(result.value) : result.value[i] \in Digits \cup LowerAF \cup {"-"}
    /\ (result.fn = "ParseFormatted" /\ ~IsZero(arg.traceID) /\ ~IsZero(arg.spanID)) =>
        /\ result.out.err = "nil"
        /\ result.out.traceID = arg.traceID
        /\ result.out.spanID = arg.spanID
        /\ (result.out.flags % 2 = 1) <=> arg.sampled

\* a sampled traceparent whose identifiers have the hex digits a to f was
\* formatted and parsed back
C16_Witness ==
    /\ result.fn = "ParseFormatted"
    /\ arg.sampled
    /\ arg.traceID[1] = 171 /\ arg.spanID[SpanIDSize] = 255
    /\ result.out.err = "nil"
    /\ result.out.flags = 1

\* a field that is not n lower-case hex characters, or that is all zeros
BadIDField(f, n) ==
    \/ Len(f) # n
    \/ \E i \in 1..Len(f) : f[i] \notin Digits \cup LowerAF
    \/ \A i \in 1..Len(f) : f[i] = "0"

\* C17: ParseTraceparent fails when the trace-id field is not 32 lower-case
\* hex characters, the parent-id field is not 16, or either is all zeros; a
\* successful parse returns non-zero identifiers, a failed one zero
\* identifiers and flags 0.
C17_BadIDsRejected ==
    result.fn = "ParseTraceparent" =>
        /\ (BadIDField(ArgField(2), traceIDLen) \/ BadIDField(ArgField(3), spanIDLen)) =>
                result.out.err # "nil"
        /\ result.out.err = "nil" =>
                ~IsZero(result.out.traceID) /\ ~IsZero(result.out.spanID)
        /\ result.out.err # "nil" =>
                /\ IsZero(result.out.traceID) /\ Len(result.out.traceID) = TraceIDSize
                /\ IsZero(result.out.spanID) /\ Len(result.out.spanID) = SpanIDSize
                /\ result.out.flags = 0

\* a version 00 value whose only defect is an upper-case digit in the trace-id
\* was refused
C17_Witness ==
    /\ result.fn = "ParseTraceparent"
    /\ arg.value = Join(<<<<"0", "0">>, <<"A">> \o Rep("1", traceIDLen - 1),
                          Rep("0", spanIDLen - 1) \o <<"1">>, <<"0", "1">>>>, "-")
    /\ result.out.err = ErrInvalidTraceID

\* C18: ParseTraceparent fails when the version field is the byte 0xff,
\* written with f or F in either place.
C18_VersionFFRejected ==
    (/\ result.fn = "ParseTraceparent"
     /\ Len(ArgField(1)) = versionLen
     /\ \A i \in 1..Len(ArgField(1)) : ArgField(1)[i] \in {"f", "F"}) =>
        result.out.err # "nil"

\* C19: a value whose version is two hex digits other than 00 and ff (in
\* either case), followed by a trace-id of 32 lower-case hex digits, a
\* parent-id of 16, both non-zero, a flags field of two hex digits and any
\* further fields, parses to what the version 00 value of the same three
\* fields parses to, which is a success.
C19_FutureVersion ==
    result.fn = "ParseTraceparent" =>
        LET version == ArgField(1)
            reference == ParseTraceparent(
                Join(<<<<"0", "0">>, ArgField(2), ArgField(3), ArgField(4)>>, "-"))
        IN  (/\ Len(ArgFields) >= fieldCount
             /\ Len(version) = versionLen /\ isHex(version)
             /\ 16 * fromHexChar(version[1]) + fromHexChar(version[2]) \notin {0, 255}
             /\ ~BadIDField(ArgField(2), traceIDLen)
             /\ ~BadIDField(ArgField(3), spanIDLen)
             /\ Len(ArgField(4)) = flagsLen /\ isHex(ArgField(4))) =>
                /\ reference.err = "nil"
                /\ result.out = reference

\* a value of version cC with two fields after the flags was parsed
C19_Witness ==
    /\ result.fn = "ParseTraceparent"
    /\ ArgField(1) = <<"c", "C">>
    /\ Len(ArgFields) = fieldCount + 2
    /\ result.out.err = "nil"
    /\ result.out.flags = 254

----------------------------------------------------------------------------
(* Properties of the tracestate functions *)

\* the places of the input's entries, the keys they have, and the place of
\* the last entry with key k
ArgEntries == {i \in 1..Len(arg.members) : arg.members[i].kind = "entry"}
ArgKeys == {arg.members[i].key : i \in ArgEntries}
LastOccurrence(k) ==
    CHOOSE i \in ArgEntries :
        /\ arg.members[i].key = k
        /\ \A j \in ArgEntries : arg.members[j].key = k => j <= i

\* C20: an input of MaxTracestateEntries members at most, all entries or empty,
\* parses; and when an input parses, the result has one entry for each key of the input and no other,
\* each with the value of the key's last occurrence, in the order of the last
\* occurrences.
C20_LastWins ==
    result.fn = "ParseTracestate" =>
        LET entries == result.out.entries
        IN  /\ (/\ Len(arg.members) <= MaxTracestateEntries
                 /\ \A i \in 1..Len(arg.members) : arg.members[i].kind # "bad") =>
                    result.out.err = "nil"
            /\ result.out.err = "nil" =>
                /\ \A k \in ArgKeys :
                        Cardinality({j \in 1..Len(entries) : entries[j].Key = k}) = 1
                /\ \A j \in 1..Len(entries) :
                    /\ entries[j].Key \in ArgKeys
                    /\ entries[j].Value = arg.members[LastOccurrence(entries[j].Key)].val
                /\ \A i, j \in 1..Len(entries) :
                        i < j => LastOccurrence(entries[i].Key) < LastOccurrence(entries[j].Key)

\* "a=1,b=1,a=2" was parsed to b=1, a=2
C20_Witness ==
    /\ result.fn = "ParseTracestate"
    /\ arg.value = <<"a", "=", "1", ",", "b", "=", "1", ",", "a", "=", "2">>
    /\ result.out.err = "nil"
    /\ result.out.entries = <<[Key |-> <<"b">>, Value |-> <<"1">>],
                              [Key |-> <<"a">>, Value |-> <<"2">>]>>

\* C21: ParseTracestate fails, with no entries, on every input of more than
\* MaxTracestateEntries comma-separated members, and succeeds on every input
\* of exactly MaxTracestateEntries members that are all valid entries.
C21_EntryLimit ==
    result.fn = "ParseTracestate" =>
        /\ Len(arg.members) > MaxTracestateEntries =>
                /\ result.out.err = ErrInvalidTracestate
                /\ result.out.entries = <<>>
        /\ (/\ Len(arg.members) = MaxTracestateEntries
            /\ \A i \in 1..Len(arg.members) : arg.members[i].kind = "entry") =>
                result.out.err = "nil"

\* an input of MaxTracestateEntries entries whose keys all differ was parsed to
\* as many entries
C21_Witness ==
    /\ result.fn = "ParseTracestate"
    /\ Len(arg.members) = MaxTracestateEntries
    /\ Cardinality(ArgKeys) = MaxTracestateEntries
    /\ result.out.err = "nil"
    /\ Len(result.out.entries) = MaxTracestateEntries

\* an input of MaxTracestateEntries + 1 valid entries was rejected
C21_WitnessOver ==
    /\ result.fn = "ParseTracestate"
    /\ Len(arg.members) = MaxTracestateEntries + 1
    /\ \A i \in 1..Len(arg.members) : arg.members[i].kind = "entry"
    /\ result.out.err = ErrInvalidTracestate

\* C22: ParseTracestate returns an error and no entries whenever a member of
\* the input that is not blank lacks the equals sign, has a key that is
\* empty, too long or outside the key grammar, or a value that is empty, too
\* long or holds a character that is not allowed, also when a later member
\* is a valid entry with the same key.
C22_AnyViolationFails ==
    result.fn = "ParseTracestate" =>
        ((\E i \in 1..Len(arg.members) : arg.members[i].kind = "bad") =>
            /\ result.out.err = ErrInvalidTracestate
            /\ result.out.entries = <<>>)

\* "a=,a=1" was rejected: the empty value of a fails the parse although the
\* key is repeated by a valid entry
C22_Witness ==
    /\ result.fn = "ParseTracestate"
    /\ arg.value = <<"a", "=", ",", "a", "=", "1">>
    /\ result.out.err = ErrInvalidTracestate
    /\ result.out.entries = <<>>

\* a key of MaxTracestateKeyLen + 1 characters was rejected
C22_WitnessLongKey ==
    /\ result.fn = "ParseTracestate"
    /\ arg.value = Rep("k", MaxTracestateKeyLen + 1) \o <<"=", "1">>
    /\ result.out.err = ErrInvalidTracestate

\* the parts key=value of the first n entries of the argument, joined
FormattedPrefix(n) ==
    Join([i \in 1..n |-> arg.entries[i].Key \o <<"=">> \o arg.entries[i].Value], ",")

\* C23: FormatTracestate returns the first entries of its argument, in order
\* and joined by commas, and leaves entries out only when the string it
\* returns has MinPropagatedLen characters at least: while fewer have been
\* emitted and entries remain, the next entry is appended.
C23_TruncateOnlyPast512 ==
    result.fn = "FormatTracestate" =>
        \E n \in 0..Len(arg.entries) :
            /\ result.out = FormattedPrefix(n)
            /\ n < Len(arg.entries) => Len(result.out) >= MinPropagatedLen

\* the result is always some first entries in order joined by commas, and
\* entries are left out only when MinPropagatedLen - 1 characters at least
\* have been emitted
C23_TruncateOnlyPast511 ==
    result.fn = "FormatTracestate" =>
        \E n \in 0..Len(arg.entries) :
            /\ result.out = FormattedPrefix(n)
            /\ n < Len(arg.entries) => Len(result.out) >= MinPropagatedLen - 1

\* an entry was left out after MinPropagatedLen - 1 characters
C23_Truncated511 ==
    /\ result.fn = "FormatTracestate"
    /\ Len(arg.entries) = 2
    /\ result.out = FormattedPrefix(1)
    /\ Len(result.out) = MinPropagatedLen - 1

----------------------------------------------------------------------------
(* Properties of the Propagator *)

\* Extract has returned for an incoming http.Header
Extracted == result.fn = "Extract" /\ arg.carrier.type = "http.Header"

\* C24: when the traceparent header is missing or does not parse, Extract
\* returns an error and the zero SpanContext, whatever the tracestate headers
\* hold: the error depends on the traceparent alone, ParseTracestate is not
\* called and no tracestate is returned.
C24_BadTraceparentIgnoresState ==
    (Extracted /\ arg.tp.kind # "valid") =>
        /\ result.out.err =
                (IF arg.tp.kind = "missing" THEN ErrNoTraceparent ELSE ErrParseTraceparent)
        /\ result.out.sc = ZeroSpanContext
        /\ ~result.out.parsedTracestate

\* a traceparent that does not parse came with the tracestate "a=1,b=1", and
\* Extract returned the error and the zero context
C24_Witness ==
    /\ Extracted
    /\ arg.tp.kind = "bad"
    /\ arg.ts.values = << <<"a", "=", "1", ",", "b", "=", "1">> >>
    /\ result.out.err = ErrParseTraceparent
    /\ result.out.sc = ZeroSpanContext

\* C25: when the first traceparent value is well-formed, Extract returns no
\* error and a SpanContext with the identifiers of the header, IsRemote set,
\* Sampled equal to bit 0 of the flags, and as tracestate the header values
\* joined by commas when they parse and the empty string when they do not.
C25_ValidTraceparentExtracts ==
    (Extracted /\ arg.tp.kind = "valid") =>
        /\ result.out.err = "nil"
        /\ result.out.sc =
                [TraceID |-> arg.tp.traceID, SpanID |-> arg.tp.spanID,
                 Tracestate |-> IF arg.ts.ok THEN Join(arg.ts.values, ",") ELSE <<>>,
                 IsRemote |-> TRUE, Sampled |-> arg.tp.flags % 2 = 1]

\* a well-formed traceparent with flags 02 came with a tracestate that does
\* not parse: Extract returned a remote context, not sampled, with the empty
\* tracestate
C25_Witness ==
    /\ Extracted
    /\ arg.tp.kind = "valid"
    /\ arg.tp.flags = 2
    /\ ~arg.ts.ok
    /\ result.out.err = "nil"
    /\ result.out.sc.IsRemote
    /\ ~result.out.sc.Sampled
    /\ result.out.sc.Tracestate = <<>>

\* two tracestate headers came with a well-formed traceparent, and Extract
\* returned their values joined by a comma
C25_WitnessJoined ==
    /\ Extracted
    /\ arg.tp.kind = "valid"
    /\ Len(arg.ts.values) = 2
    /\ result.out.sc.Tracestate = <<"a", "=", "1", ",", " ", "b", " ", "=", " ", "2", "\t">>

\* C26: Inject on an http.Header, from a context without span or with a span
\* that is not recording, returns nil and leaves the carrier as it was.
C26_InjectNoop ==
    (/\ last.op = "Inject"
     /\ last.before.type = "http.Header"
     /\ last.span = 0 \/ last.finalized) =>
        /\ last.err = "nil"
        /\ carrier = last.before

\* Inject ran from the context of a span that End had finalized, on a carrier
\* with headers, and left them
C26_Witness ==
    /\ last.op = "Inject"
    /\ last.span # 0
    /\ last.finalized
    /\ spans[last.span].tracer
    /\ last.before.type = "http.Header"
    /\ last.before # EmptyHeader
    /\ last.err = "nil"
    /\ carrier = last.before

\* Inject ran from the context of a dropped span and left the empty carrier
C26_WitnessDropped ==
    /\ last.op = "Inject"
    /\ last.span # 0
    /\ ~spans[last.span].tracer
    /\ carrier = EmptyHeader

\* the middleware gave WithRemoteParent to Operation: Extract returned no
\* error and a valid context
RemoteParentGiven ==
    /\ result.fn = "Extract"
    /\ result.out.err = "nil"
    /\ IsValid(result.out.sc)

\* C27: the span of an operation started with the remote parent (T, P, S) has
\* trace ID T and parent ID P, and Inject from its context writes a
\* traceparent with T and the span's own ID, which is not P, and the
\* tracestate S.
C27_RemoteParentContinued ==
    (/\ RemoteParentGiven
     /\ last.op = "Inject"
     /\ last.span # 0
     /\ ~last.finalized
     /\ last.before.type = "http.Header") =>
        LET s == last.span
            remote == result.out.sc
            written == ParseTraceparent(HeaderGet(carrier, "traceparent"))
        IN  /\ IDBytes(spans[s].traceID, TraceIDSize) = remote.TraceID
            /\ IDBytes(spans[s].parentID, SpanIDSize) = remote.SpanID
            /\ written.err = "nil"
            /\ written.traceID = remote.TraceID
            /\ written.spanID = IDBytes(spans[s].spanID, SpanIDSize)
            /\ written.spanID # remote.SpanID
            /\ remote.Tracestate # <<>> =>
                    HeaderValues(carrier, "tracestate") = <<remote.Tracestate>>

\* what does hold: the span of the operation is a root span, with no parent
\* ID, and Inject writes its identifiers and no tracestate
C27_RemoteParentDropped ==
    (/\ RemoteParentGiven
     /\ last.op = "Inject"
     /\ last.span # 0
     /\ ~last.finalized
     /\ last.before = EmptyHeader) =>
        LET s == last.span
            written == ParseTraceparent(HeaderGet(carrier, "traceparent"))
        IN  /\ spans[s].parentID = ZeroID
            /\ written.traceID = IDBytes(spans[s].traceID, TraceIDSize)
            /\ HeaderValues(carrier, "tracestate") = <<>>

\* C28: Inject from the context of a recording span into an empty carrier,
\* then Extract from that carrier, returns no error and a SpanContext with
\* the trace ID and the span ID of the span, IsRemote and Sampled set.
C28_InjectExtractRoundTrip ==
    (/\ result.fn = "ExtractInjected"
     /\ result.carrier = carrier
     /\ last.op = "Inject"
     /\ last.span # 0
     /\ ~last.finalized
     /\ last.before = EmptyHeader) =>
        /\ result.out.err = "nil"
        /\ result.out.sc.TraceID = IDBytes(spans[last.span].traceID, TraceIDSize)
        /\ result.out.sc.SpanID = IDBytes(spans[last.span].spanID, SpanIDSize)
        /\ result.out.sc.IsRemote
        /\ result.out.sc.Sampled

\* the round trip was made for a span whose identifiers are written with
\* letters
C28_Witness ==
    /\ result.fn = "ExtractInjected"
    /\ result.carrier = carrier
    /\ last.op = "Inject"
    /\ last.span # 0
    /\ ~last.finalized
    /\ last.before = EmptyHeader
    /\ spans[last.span].traceID = 43981
    /\ spans[last.span].spanID = 43981
    /\ result.out.err = "nil"
    /\ result.out.sc.TraceID = IDBytes(43981, TraceIDSize)
    /\ result.out.sc.Sampled

----------------------------------------------------------------------------
(* Properties of the BatchProcessor *)

\* the ExportSpans calls issued by the processor
BatchCalls ==
    {i \in 1..Len(exportCalls) : exportCalls[i].by \in {"EnqueueSpan", "flush", "Shutdown"}}

Count(seq, x) == Cardinality({i \in 1..Len(seq) : seq[i] = x})

\* the batches of the ExportSpans calls issued so far that hold span x
BatchesOf(x) ==
    {i \in BatchCalls : Count(exportCalls[i].spans, x) > 0}

\* the Shutdown calls that hold span x between Unlock and ExportSpans
HeldBy(x) ==
    {i \in 1..Len(sd) : sd[i].pc = "export" /\ Count(sd[i].spans, x) > 0}

Increasing(seq) == \A i, j \in 1..Len(seq) : i < j => seq[i] < seq[j]

\* C3: the queue never holds more than MaxQueueSize spans.
C3_QueueBounded == Len(queue) <= cfg.MaxQueueSize

\* an EnqueueSpan on a full queue has returned and the queue is full again
C3_Witness ==
    /\ last.op = "EnqueueSpan" /\ ~last.stopped
    /\ evicted # <<>>
    /\ Len(queue) = cfg.MaxQueueSize

C5_BatchSize ==
    \A i \in BatchCalls :
        /\ Len(exportCalls[i].spans) >= 1
        /\ Len(exportCalls[i].spans) <= cfg.BatchSize

\* a size-triggered flush has exported a full batch of more than one span on a
\* processor whose queue is larger than a batch, and Shutdown has exported one
C5_Witness ==
    /\ cfg.MaxQueueSize > cfg.BatchSize /\ cfg.BatchSize > 1
    /\ \E i \in BatchCalls : /\ exportCalls[i].by = "EnqueueSpan"
                             /\ Len(exportCalls[i].spans) = cfg.BatchSize
    /\ \E i \in BatchCalls : exportCalls[i].by = "Shutdown"

\* C6 (step part): EnqueueSpan on a queue that holds MaxQueueSize spans removes
\* the head of the queue, which is the earliest-enqueued span in it, and
\* appends the new span after the others, which keep their order; the result
\* stays in the queue or, if it fills a batch, is exported as it is.
C6_EvictOldestStep ==
    (bmu.op = "EnqueueSpan" /\ bmu'.op = "free" /\ ~stopped
        /\ Len(queue) >= cfg.MaxQueueSize) =>
        LET kept == Append(Tail(queue), bmu.arg)
        IN  /\ \A i \in 1..Len(queue) : queue[1] <= queue[i]
            /\ evicted' = Append(evicted, queue[1])
            /\ \/ queue' = kept /\ exportCalls' = exportCalls
               \/ /\ queue' = <<>>
                  /\ Len(exportCalls') = Len(exportCalls) + 1
                  /\ exportCalls'[Len(exportCalls')].spans = kept

\* C6 (state part): the queue and every batch list spans in enqueue order, and
\* an evicted span is in no batch and no longer in the queue.
C6_Ordered ==
    /\ Increasing(queue)
    /\ \A i \in BatchCalls : Increasing(exportCalls[i].spans)
    /\ \A i \in 1..Len(sd) : Increasing(sd[i].spans)
    /\ \A k \in 1..Len(evicted) :
        /\ BatchesOf(evicted[k]) = {}
        /\ HeldBy(evicted[k]) = {}
        /\ Count(queue, evicted[k]) = 0

\* C6: overflow evicts the oldest queued span and appends the new one at the
\* tail; batches are in enqueue order and never hold an evicted span.
C6_EvictOldest == []C6_Ordered /\ [][C6_EvictOldestStep]_vars

\* after an eviction from a queue of more than one span, a flush has exported
\* a full queue that starts right after the last evicted span
C6_Witness ==
    /\ evicted # <<>>
    /\ cfg.MaxQueueSize > 1
    /\ \E i \in BatchCalls :
        /\ Len(exportCalls[i].spans) = cfg.MaxQueueSize
        /\ exportCalls[i].spans[1] = evicted[Len(evicted)] + 1

\* the Shutdown calls that found the processor running
FirstShutdowns == {i \in 1..Len(sd) : sd[i].first}

\* C7: at most one Shutdown call finds the processor running.  When it has
\* returned it has handed the spans it found in the queue, all of them and in
\* one call made with the caller's context, to ExportSpans and returned that
\* call's error (nil without a call if the queue was empty).  Every other
\* Shutdown call makes no ExportSpans call and returns nil.  From the first
\* Shutdown on the queue is empty, and no timer-triggered flush exports.
C7_ShutdownFlush ==
    /\ Cardinality(FirstShutdowns) <= 1
    /\ stopped => queue = <<>>
    /\ Cardinality({k \in BatchCalls : exportCalls[k].by = "Shutdown"}) <= 1
    /\ \A i \in 1..Len(sd) :
        sd[i].pc = "done" =>
            IF sd[i].first /\ sd[i].found # <<>>
            THEN /\ sd[i].call \in BatchCalls
                 /\ exportCalls[sd[i].call].by = "Shutdown"
                 /\ exportCalls[sd[i].call].ctx = "caller"
                 /\ exportCalls[sd[i].call].spans = sd[i].found
                 /\ sd[i].ret = exportCalls[sd[i].call].ret
            ELSE sd[i].call = 0 /\ sd[i].ret = "nil"
    /\ \A k \in BatchCalls : exportCalls[k].by = "flush" => ~exportCalls[k].stopped

\* the first Shutdown has exported spans and returned the error of the call, a
\* later Shutdown has returned, and a timer callback has run after them
C7_Witness ==
    /\ last.op = "flush" /\ last.stopped
    /\ \E i \in FirstShutdowns : sd[i].pc = "done" /\ sd[i].ret = "err"
    /\ \E i \in 1..Len(sd) : ~sd[i].first /\ sd[i].pc = "done"

\* C8: the critical section of EnqueueSpan on a stopped processor changes
\* neither the queue nor the timer and issues no ExportSpans call.
C8_StoppedEnqueueStep ==
    (bmu.op = "EnqueueSpan" /\ bmu'.op = "free" /\ stopped) =>
        /\ queue' = queue
        /\ timer' = timer
        /\ timers' = timers
        /\ exportCalls' = exportCalls
        /\ evicted' = evicted
        /\ accepted' = accepted

C8_StoppedEnqueueNoop == [][C8_StoppedEnqueueStep]_vars

\* EnqueueSpan has returned on a stopped processor
C8_Witness ==
    /\ last.op = "EnqueueSpan" /\ last.stopped
    /\ last.span \notin accepted

\* the timers the runtime will still fire
ArmedTimers == {id \in 1..Len(timers) : timers[id] = "armed"}

\* bp.timer is set exactly while the queue holds spans, and at most one timer
\* is armed
OneTimerWhileQueued ==
    /\ timer # 0 <=> queue # <<>>
    /\ Cardinality(ArmedTimers) <= 1
    /\ timer # 0 => timers[timer] \in {"armed", "fired"}

\* C33: while the processor is not stopped a timer is armed (bp.timer is set)
\* if and only if the queue is non-empty, and at most one timer is armed at a
\* time; so a flush by EnqueueSpan leaves an empty queue and no timer.
C33_OneTimerIffQueued == ~stopped => OneTimerWhileQueued

\* the same for the configurations in which an EnqueueSpan call that evicts
\* does not leave a queue of one span
C33_OneTimerUnlessEvictToOne ==
    (~stopped /\ (cfg.MaxQueueSize > 1 \/ cfg.BatchSize = 1)) => OneTimerWhileQueued

\* EnqueueSpan has evicted the only span of the queue and armed a second timer
\* while the first is still armed
C33_TwoTimers ==
    /\ last.op = "EnqueueSpan" /\ ~stopped
    /\ evicted # <<>>
    /\ Cardinality(ArmedTimers) = 2

\* the step in which the callback of a timer that is no longer bp.timer (its
\* batch was taken by another flush, by Shutdown or by an eviction) leaves its
\* critical section
StaleFlushReturns == bmu.op = "flush" /\ bmu'.op = "free" /\ timer # bmu.arg

\* C37: the callback of a timer that fired but was superseded before it
\* obtained the lock exports nothing; a timer-triggered flush exports only the
\* batch its timer was armed for.
C37_StaleFlushStep == StaleFlushReturns => exportCalls' = exportCalls

C37_StaleFlushExportsNothing == [][C37_StaleFlushStep]_vars

\* the same where no span is ever evicted, so that the timer was superseded
\* by a flush of EnqueueSpan
C37_StaleFlushNoEviction ==
    [][cfg.MaxQueueSize >= cfg.BatchSize => C37_StaleFlushStep]_vars

\* what the code does: the callback exports whatever the queue holds, and
\* nothing only when the queue is empty, when it also leaves bp.timer alone
C37_StaleFlushExportsQueue ==
    [][StaleFlushReturns =>
        IF queue = <<>>
        THEN exportCalls' = exportCalls /\ timer' = timer
        ELSE /\ Len(exportCalls') = Len(exportCalls) + 1
             /\ exportCalls'[Len(exportCalls')].spans = queue
             /\ queue' = <<>> /\ timer' = 0]_vars

\* the callback of a superseded timer has exported a span enqueued after the
\* flush by EnqueueSpan that took its batch
C37_StaleExported ==
    /\ last.op = "flush" /\ evicted = <<>>
    /\ \E i, k \in BatchCalls :
        /\ i < k
        /\ exportCalls[i].by = "EnqueueSpan"
        /\ exportCalls[k].by = "flush"
        /\ k = Len(exportCalls)
        /\ timers[last.span] = "done"
        /\ \E id \in 1..Len(timers) : id > last.span /\ timers[id] = "stopped"

\* C38: with MaxQueueSize >= BatchSize no span is ever evicted: the queue is
\* shorter than BatchSize in every state, so at the start of every EnqueueSpan
\* call, and the overflow branch is never taken; a span is evicted only with
\* MaxQueueSize < BatchSize.
C38_NoEviction ==
    /\ cfg.MaxQueueSize >= cfg.BatchSize =>
            /\ Len(queue) < cfg.BatchSize
            /\ ~QueueFull(queue)
            /\ evicted = <<>>
    /\ evicted # <<>> => cfg.MaxQueueSize < cfg.BatchSize

\* with MaxQueueSize = BatchSize = 2 four spans have been enqueued, EnqueueSpan
\* has flushed twice and no span was evicted
C38_Witness ==
    /\ cfg.MaxQueueSize = cfg.BatchSize /\ cfg.BatchSize > 1
    /\ last.op = "EnqueueSpan" /\ ~last.stopped
    /\ Cardinality(accepted) > cfg.MaxQueueSize + 1
    /\ Cardinality({k \in BatchCalls : exportCalls[k].by = "EnqueueSpan"}) = 2
    /\ evicted = <<>>

\* span n has been handed to ExportSpans
Exported(n) == \E k \in BatchCalls, j \in 1..MaxEnqueues :
                    j <= Len(exportCalls[k].spans) /\ exportCalls[k].spans[j] = n

Evicted(n) == \E j \in 1..MaxEnqueues : j <= Len(evicted) /\ evicted[j] = n

\* C32: every span that has entered the queue is eventually handed to
\* ExportSpans unless it is evicted, if armed timers fire and goroutines are
\* scheduled fairly, whether or not more spans are enqueued or Shutdown is
\* called.
C32_EventuallyExported ==
    \A n \in 1..MaxEnqueues : (n \in accepted) ~> (Exported(n) \/ Evicted(n))

\* the callback of a timer has exported a batch shorter than BatchSize on a
\* processor no Shutdown was called on
C32_Witness ==
    /\ last.op = "flush" /\ sd = <<>>
    /\ exportCalls # <<>>
    /\ exportCalls[Len(exportCalls)].by = "flush"
    /\ Len(exportCalls[Len(exportCalls)].spans) < cfg.BatchSize
    /\ \A n \in accepted : Exported(n) \/ Evicted(n)

\* C36: once Exporter.Shutdown has returned no ExportSpans call sends: a
\* call that has not sent by then, whether it has passed the check of
\* e.stopped or not, sends nothing.
C36_NoSendStep ==
    estopped =>
        \A i \in 1..Len(exportCalls) :
            exportCalls[i].ret \in {"async", "running"} =>
                exportCalls'[i].ret \in {"async", "running", "skipped"}

C36_NoSendAfterShutdown == [][C36_NoSendStep]_vars

\* what the code gives: a call that reaches the check of e.stopped after
\* Exporter.Shutdown sends nothing; a call that passed the check before sends,
\* however long after the shutdown
C36_NoSendIfCheckedAfter ==
    [][estopped =>
        \A i \in 1..Len(exportCalls) :
            exportCalls[i].ret = "async" =>
                exportCalls'[i].ret \in {"async", "skipped"}]_vars

\* a request has ended after Exporter.Shutdown returned
C36_SentAfterShutdown ==
    /\ estopped
    /\ \E j \in TeardownsDone : teardown[j].exporterShutdowns = 1
    /\ \E i \in 1..Len(exportCalls) : exportCalls[i].ret = "sent"

----------------------------------------------------------------------------
(* api.go Operation, options.go StepFromContext: the names of the children *)

\* the full names of the children of one kind and one base name, in the order
\* their starts had the parent's mutex
FullNamesOf(kind, name) ==
    LET F[i \in 0..Len(olog.children)] ==
            IF i = 0 THEN <<>>
            ELSE IF olog.children[i].kind = kind /\ olog.children[i].name = name
                 THEN Append(F[i - 1], olog.children[i].fullName)
                 ELSE F[i - 1]
    IN  F[Len(olog.children)]

\* what follows the base name in the name of the first, second, ... child
Enumeration == <<"", "[1]", "[2]", "[3]", "[4]", "[5]", "[6]", "[7]">>

\* C34: the children of one parent started with one name are named name,
\* name[1], name[2], ... in the order their starts took the parent's mutex, and
\* so are its steps, with a counter of their own; no two of them share a full
\* name and no counter value is skipped, whatever the interleaving.
C34_EnumeratedNames ==
    \A kind \in {"Operation", "Step"}, name \in OpNames :
        LET names == FullNamesOf(kind, name)
        IN  /\ \A i \in 1..Len(names) : names[i] = name \o Enumeration[i]
            /\ \A i, j \in 1..Len(names) : names[i] = names[j] => i = j

\* the parent has an operation a and an operation a[1], whose start still
\* holds the parent's mutex, and a third start with that name waits for it
C34_Witness ==
    /\ FullNamesOf("Operation", "a") = <<"a", "a[1]">>
    /\ \E g, h \in Goroutines :
            /\ omu[OpMu] = g
            /\ gor[g].call = [fn |-> "Operation", name |-> "a"]
            /\ gor[g].count = 1
            /\ Waits(h)
            /\ gor[h].call = [fn |-> "Operation", name |-> "a"]

----------------------------------------------------------------------------
(* api.go Op.Done, options.go end and recordMetrics *)

\* C39: however many times Done is called on one operation, its span is ended
\* once and its metrics are recorded once: the count and one of the successes
\* and the failures have increased by one in total and the duration histogram
\* holds one observation.
C39_DoneIdempotent ==
    olog.dones >= 1 =>
        /\ olog.ends = 1
        /\ metrics.count = 1
        /\ metrics.successes + metrics.failures = 1
        /\ metrics.observations = 1

\* Done ends the span once, whatever the number of calls
C39_SpanEndedOnce == olog.dones >= 1 => olog.ends = 1

\* Done records the metrics once for each call
C39_RecordedPerCall ==
    /\ metrics.count = olog.dones
    /\ metrics.successes + metrics.failures = olog.dones
    /\ metrics.observations = olog.dones

\* Done has returned twice on one operation
C39_DoneTwice == olog.dones = 2 /\ olog.ends = 1 /\ metrics.count = 2

----------------------------------------------------------------------------
(* the order of the mutexes *)

\* the mutexes the goroutine holds
Held(g) == {mu \in Mutexes : omu[mu] = g}

\* a goroutine that is about to lock a mutex while it holds one holds
\* operationState.mu alone and locks a Span's mutex; a goroutine that holds a
\* Span's mutex holds no mutex besides it but operationState.mu
LockOrder ==
    \A g \in Goroutines :
        /\ Busy(g) /\ NextStep(g).k = "Lock" /\ Held(g) # {} =>
                Held(g) = {OpMu} /\ NextStep(g).x \in SpanMutexes
        /\ Held(g) \cap SpanMutexes # {} =>
                Cardinality(Held(g)) <= 2 /\ Held(g) \ SpanMutexes \subseteq {OpMu}

\* while a goroutine is in a call, some goroutine in a call can take its step
NoDeadlock ==
    (\E g \in Goroutines : Busy(g)) => \E g \in Goroutines : Busy(g) /\ ~Waits(g)

\* C35: no interleaving of Operation, Step, Op.Register, OpStep.Register,
\* Op.Done, OpStep.Done, the span mutators, Span.End, EnqueueSpan, the timer's
\* flush and Shutdown on shared objects deadlocks: mutexes are nested in the
\* order operationState.mu, Span.mu only, and no goroutine acquires an
\* operationState or BatchProcessor mutex while it holds a Span's mutex.
C35_NoDeadlock == LockOrder /\ NoDeadlock

\* a goroutine in setAttr holds operationState.mu and waits for the mutex of
\* the operation's span, which a goroutine in Done holds
C35_Witness ==
    \E g, h \in Goroutines :
        /\ Held(g) = {OpMu}
        /\ Waits(g)
        /\ NextStep(g).x = OpSpanMu
        /\ omu[OpSpanMu] = h
        /\ gor[h].call.fn = "Op.Done"

\* a goroutine holds operationState.mu and the span's mutex, one in the other
C35_WitnessNested ==
    \E g \in Goroutines : Held(g) = {OpMu, OpSpanMu}

====
